---- MODULE Spec2Model ----
(***************************************************************************)
(* Car_Rental: the persistence/booking engine of src/db.py.                *)
(*                                                                         *)
(* Every engine function opens its own connection (`with get_connection()  *)
(* as conn`), runs its SQL statements one after the other and commits.     *)
(* One action of this module is one SQL statement (or the commit) of one   *)
(* call.  Writes of a call are kept in tx[p] until its commit: PostgreSQL  *)
(* runs at READ COMMITTED, so a statement of another call sees only what   *)
(* was committed, and a statement of the call itself sees View(p).         *)
(*                                                                         *)
(* The bot is one asyncio process and the psycopg2 calls block it, so the  *)
(* program runs one engine call at a time: that is Spec.  The specs named  *)
(* Spec...Race let the statements of several calls interleave, as they do  *)
(* when the engine is called over several connections at once.             *)
(***************************************************************************)
EXTENDS Integers, FiniteSets, Sequences, TLC

(* ------------------------------ bounds -------------------------------- *)
NumProcs == 2
NumCustomers == 2
NumDealers == 2
NumCars == 2
MaxBookings == 2
NumUsers == 2
NumNames == 2
NumUrls == 2
MaxNewCars == 1
MaxNewImages == 2
MaxLimit == 2
MaxOffset == 2
NumChats == 1
NumDates == 1
NumTimes == 1
NumNewDealers == 1

Procs == 1..NumProcs
CustomerIds == 1..NumCustomers
DealerIds == 1..NumDealers
\* car ids 1..NumCars exist at the start; NumCars + 1 is an id no car ever had
CarIds == 1..(NumCars + 1)
BookingIds == 1..(MaxBookings + 1)
TelegramIds == 1..NumUsers
Names == 1..NumNames
\* the private chats with the bot: chat u is the chat of the user whose
\* Telegram id is u
Chats == 1..NumChats
\* the dates and the times the keyboards of the booking wizard offer
Dates == 1..NumDates
\* "back": what start_date_handler and end_date_handler take for the date
\* when the callback data is start_date_back or end_date_back
Back == NumDates + 1
Times == 1..NumTimes
\* Telegram file ids of car photos
ImageUrls == 1..NumUrls
\* the car ids add_dealer_car can hand out, and one more that never has a row
AllCarIds == 1..(NumCars + MaxNewCars + 1)

(* ------------------------------ state --------------------------------- *)
VARIABLES
    dealers,          \* table dealers: the set of dealer ids
    cars,             \* table cars: id -> [dealer_id, available]
    car_images,       \* table car_images: set of [id, car_id, image_url, is_primary]
    bookings,         \* table bookings: id -> [customer_id, car_id, end_date, active, pending]
    bookings_id_seq,  \* the serial behind bookings.id
    cars_id_seq,      \* the serial behind cars.id
    car_images_id_seq, \* the serial behind car_images.id
    customers,        \* table customers: sequence of [telegram_id, name], id = index
    pc,               \* per caller: the statement it is at
    call,             \* per caller: the engine function called and its arguments
    found,            \* per caller: what its SELECTs fetched
    tx,               \* per caller: the uncommitted writes of its transaction
    res,              \* per caller: what the call returned
    ncommit,          \* per caller: conn.commit() calls made by the call
    pre,              \* Spec only: the tables when the call began
    lastBooked,       \* Spec only: booking id returned by the call before, or 0
    fsm,              \* per chat: the FSM state of the conversation
    data,             \* per chat: the session data of the conversation
    hpc,              \* the handler that is waiting for an engine call
    screen,           \* per chat: the last message of the bot and its keyboard
    ADMIN_GROUP_ID,   \* config.py: the chat id of the admin group, or None
    dealer_cols,      \* table dealers: id -> [telegram_id, name]; the serial
                      \* behind dealers.id is its length + 1
    pfsm,             \* per panel chat and user: the FSM state
    pdata,            \* per panel chat and user: the session data
    panel,            \* per panel chat: the last message of the bot and the
                      \* last keyboard it sent
    ppc,              \* the panel handler that is waiting for an engine call
    update,           \* the update the panel handlers received last
    now,              \* datetime.now(): the hour and the minute
    offered,          \* the time keyboard generated last: for_start, whether
                      \* the date chosen before it is today, and its slots
    stats             \* what get_dealer_stats returned last

dbVars == <<dealers, cars, car_images, bookings, customers>>
procVars == <<pc, call, found, tx, res, ncommit>>
seqVars == <<bookings_id_seq, cars_id_seq, car_images_id_seq>>
vars == <<dealers, cars, car_images, bookings, bookings_id_seq, cars_id_seq,
          car_images_id_seq, customers,
          pc, call, found, tx, res, ncommit, pre, lastBooked,
          fsm, data, hpc, screen,
          ADMIN_GROUP_ID, dealer_cols, pfsm, pdata, panel, ppc, update,
          now, offered, stats>>
clockVars == <<now, offered, stats>>
panelVars == <<ADMIN_GROUP_ID, dealer_cols, pfsm, pdata, panel, ppc, update, clockVars>>
convVars == <<fsm, data, hpc, screen, panelVars>>

Db == [dealers |-> dealers, cars |-> cars, car_images |-> car_images,
       bookings |-> bookings, customers |-> customers]

(* --------------------------- return values ---------------------------- *)
AlreadyBooked == "You already have an active booking."
CarNotFound == "This car does not exist in our database."
CarUnavailable == "This car is not available for booking. It may have been recently booked."
BookingNotFound == "Booking not found or already completed."
CarReturned == "Car returned successfully."
AdminBookingNotFound == "Booking not found."
BookingDeleted == "Booking deleted successfully."
NotFoundOrProcessed == "Booking not found or already processed."
BookingApproved == "Booking approved successfully."
BookingRejected == "Booking rejected successfully."
DealerNotFound == "Dealer not found."
DealerDeleted == "Dealer and all their cars deleted successfully."
CarNotYours == "Car not found or doesn't belong to you."
CarIsBooked == "Cannot delete a car that is currently booked."
CarDeleted == "Car deleted successfully."
BookDbError == "A database error occurred. Please try again later."
ReturnDbError == "A database error occurred while processing your return. Please try again later."
\* f"Database error: {e}", e being the text of the psycopg2 exception
DatabaseErrorRaw == "Database error: server closed the connection unexpectedly"

Ok(msg, id) == [ok |-> TRUE, msg |-> msg, id |-> id]
Fail(msg) == [ok |-> FALSE, msg |-> msg, id |-> 0]
NoResult == [ok |-> FALSE, msg |-> "", id |-> 0]

CarNotFoundShort == "Car not found"
UpdatedImage == "Updated image #"
AddedNewImage == "Added new image #"
UpdatedPrimaryImage == "Updated primary image for car #"
CreatedPrimaryImage == "Created new primary image for car #"

NoCall == [op |-> "none", customer_id |-> 0, car_id |-> 0, booking_id |-> 0,
           dealer_id |-> 0, telegram_id |-> 0, name |-> 0,
           image_url |-> 0, is_primary |-> FALSE, limit |-> 0, offset |-> 0]
NoFound == [car_id |-> 0, is_active |-> FALSE, car_ids |-> {}, booking_id |-> 0,
            image_id |-> 0]

(* ------------------------ tables and writes --------------------------- *)
\* INSERT INTO bookings (customer_id, car_id, start_date, active) leaves
\* pending to the column default: a direct booking is in effect at once.
PendingDefault == FALSE

BookingRow(customer_id, car_id, pending) ==
    [customer_id |-> customer_id, car_id |-> car_id, end_date |-> "NULL",
     active |-> TRUE, pending |-> pending]

Without(f, ids) == [x \in (DOMAIN f) \ ids |-> f[x]]

W(kind, id, a, b, flag) ==
    [w |-> kind, id |-> id, a |-> a, b |-> b, flag |-> flag, ids |-> {}]
\* a write whose WHERE clause names a set of car ids (car_id = ANY(%s))
WAny(kind, ids) ==
    [w |-> kind, id |-> 0, a |-> 0, b |-> 0, flag |-> FALSE, ids |-> ids]

\* One write statement applied to the tables d.
ApplyWrite(d, s) ==
    CASE s.w = "insert_booking" ->
           [d EXCEPT !.bookings = (s.id :> BookingRow(s.a, s.b, PendingDefault)) @@ @]
      [] s.w = "update_car_available" ->
           IF s.id \in DOMAIN d.cars
           THEN [d EXCEPT !.cars[s.id].available = s.flag] ELSE d
      [] s.w = "update_booking_returned" ->
           IF s.id \in DOMAIN d.bookings
           THEN [d EXCEPT !.bookings[s.id].active = FALSE,
                          !.bookings[s.id].end_date = "NOW"] ELSE d
      [] s.w = "update_booking_pending" ->
           IF s.id \in DOMAIN d.bookings
           THEN [d EXCEPT !.bookings[s.id].pending = s.flag] ELSE d
      [] s.w = "delete_booking" ->
           [d EXCEPT !.bookings = Without(@, {s.id})]
      [] s.w = "delete_car_images" ->
           [d EXCEPT !.car_images = {i \in @ : i.car_id \notin s.ids}]
      [] s.w = "delete_cars_of_dealer" ->
           [d EXCEPT !.cars = Without(@, {c \in DOMAIN @ : @[c].dealer_id = s.id})]
      [] s.w = "delete_car" ->
           [d EXCEPT !.cars = Without(@, {s.id})]
      [] s.w = "delete_dealer" ->
           [d EXCEPT !.dealers = @ \ {s.id}]
      [] s.w = "insert_dealer" ->
           [d EXCEPT !.dealers = @ \cup {s.id}]
      [] s.w = "insert_customer" ->
           [d EXCEPT !.customers = Append(@, [telegram_id |-> s.a, name |-> s.b])]
      [] s.w = "insert_car" ->
           [d EXCEPT !.cars = (s.id :> [dealer_id |-> s.a, available |-> TRUE]) @@ @]
      [] s.w = "insert_image" ->
           [d EXCEPT !.car_images = @ \cup {[id |-> s.id, car_id |-> s.a,
                                             image_url |-> s.b, is_primary |-> s.flag]}]
      [] s.w = "clear_primary" ->
           [d EXCEPT !.car_images =
               {IF i.car_id = s.id THEN [i EXCEPT !.is_primary = FALSE] ELSE i : i \in @}]
      [] s.w = "update_image" ->
           [d EXCEPT !.car_images =
               {IF i.id = s.id THEN [i EXCEPT !.image_url = s.b, !.is_primary = s.flag]
                               ELSE i : i \in @}]
      [] s.w = "update_image_url" ->
           [d EXCEPT !.car_images =
               {IF i.id = s.id THEN [i EXCEPT !.image_url = s.b] ELSE i : i \in @}]

RECURSIVE ApplyAll(_, _)
ApplyAll(d, ws) ==
    IF ws = <<>> THEN d ELSE ApplyAll(ApplyWrite(d, Head(ws)), Tail(ws))

\* What a statement of caller p reads: the committed rows and its own writes.
View(p) == ApplyAll(Db, tx[p])

ActiveBookingsOf(bk, customer_id) ==
    {b \in DOMAIN bk : bk[b].customer_id = customer_id /\ bk[b].active}

(* --------------------------- call plumbing ---------------------------- *)
Goto(p, label) == pc' = [pc EXCEPT ![p] = label]

Write(p, s) == tx' = [tx EXCEPT ![p] = Append(@, s)]

\* `return ...` inside the `with` block: leaving the block commits what the
\* transaction holds, without a conn.commit() call of the function.
ReturnEarly(p, r) ==
    LET d == ApplyAll(Db, tx[p]) IN
    /\ dealers' = d.dealers
    /\ cars' = d.cars
    /\ car_images' = d.car_images
    /\ bookings' = d.bookings
    /\ customers' = d.customers
    /\ tx' = [tx EXCEPT ![p] = <<>>]
    /\ res' = [res EXCEPT ![p] = r]
    /\ Goto(p, "done")
    /\ UNCHANGED <<seqVars, call, found, ncommit, pre, lastBooked, convVars>>

\* One SELECT that fetched `f` and goes on.
Fetched(p, f, label) ==
    /\ found' = [found EXCEPT ![p] = f]
    /\ Goto(p, label)
    /\ UNCHANGED <<dbVars, seqVars, call, tx, res, ncommit,
                   pre, lastBooked, convVars>>

\* One INSERT, UPDATE or DELETE statement.
Executed(p, s, label) ==
    /\ Write(p, s)
    /\ Goto(p, label)
    /\ UNCHANGED <<dbVars, seqVars, call, found, res, ncommit,
                   pre, lastBooked, convVars>>

\* conn.commit() followed by the return.
CommitAs(p, r) ==
    LET d == ApplyAll(Db, tx[p]) IN
    /\ dealers' = d.dealers
    /\ cars' = d.cars
    /\ car_images' = d.car_images
    /\ bookings' = d.bookings
    /\ customers' = d.customers
    /\ tx' = [tx EXCEPT ![p] = <<>>]
    /\ ncommit' = [ncommit EXCEPT ![p] = @ + 1]
    /\ res' = [res EXCEPT ![p] = r]
    /\ Goto(p, "done")
    /\ UNCHANGED <<seqVars, call, found, pre, lastBooked, convVars>>

(* ------------------------------ book_car ------------------------------ *)
\* mutant: the active-booking check left out
BookCheckCustomerSkipped(p) ==
    /\ pc[p] = "book_check_customer"
    /\ Fetched(p, found[p], "book_check_car")

\* SELECT id FROM bookings WHERE customer_id = %s AND active = true
BookCheckCustomer(p) ==
    /\ pc[p] = "book_check_customer"
    /\ IF ActiveBookingsOf(View(p).bookings, call[p].customer_id) # {}
       THEN ReturnEarly(p, Fail(AlreadyBooked))
       ELSE Fetched(p, found[p], "book_check_car")

\* mutant: only the existence of the car is checked
BookCheckCarIgnoresAvailable(p) ==
    /\ pc[p] = "book_check_car"
    /\ IF call[p].car_id \notin DOMAIN View(p).cars
       THEN ReturnEarly(p, Fail(CarNotFound))
       ELSE Fetched(p, found[p], "book_insert")

\* SELECT available FROM cars WHERE id = %s
BookCheckCar(p) ==
    /\ pc[p] = "book_check_car"
    /\ LET cs == View(p).cars
           car_id == call[p].car_id IN
       IF car_id \notin DOMAIN cs
       THEN ReturnEarly(p, Fail(CarNotFound))
       ELSE IF ~cs[car_id].available
       THEN ReturnEarly(p, Fail(CarUnavailable))
       ELSE Fetched(p, found[p], "book_insert")

\* INSERT INTO bookings (customer_id, car_id, start_date, active)
\* VALUES (%s, %s, NOW(), true) RETURNING id
BookInsert(p) ==
    /\ pc[p] = "book_insert"
    /\ bookings_id_seq' = bookings_id_seq + 1
    /\ found' = [found EXCEPT ![p].booking_id = bookings_id_seq]
    /\ Write(p, W("insert_booking", bookings_id_seq, call[p].customer_id,
                  call[p].car_id, TRUE))
    /\ Goto(p, "book_update_car")
    /\ UNCHANGED <<dbVars, cars_id_seq, car_images_id_seq,
                   call, res, ncommit, pre, lastBooked, convVars>>

\* mutant: the car's available flag is left as it was
BookUpdateCarSkipped(p) ==
    /\ pc[p] = "book_update_car"
    /\ Fetched(p, found[p], "book_commit")

\* UPDATE cars SET available = false WHERE id = %s
BookUpdateCar(p) ==
    /\ pc[p] = "book_update_car"
    /\ Executed(p, W("update_car_available", call[p].car_id, 0, 0, FALSE),
                "book_commit")

BookCommit(p) ==
    /\ pc[p] = "book_commit"
    /\ CommitAs(p, Ok("", found[p].booking_id))

(* ----------------------------- return_car ----------------------------- *)
\* mutant: the SELECT without `AND active = true`
ReturnSelectAnyBooking(p) ==
    /\ pc[p] = "return_select"
    /\ LET bk == View(p).bookings
           b == call[p].booking_id IN
       IF b \in DOMAIN bk
       THEN Fetched(p, [found[p] EXCEPT !.car_id = bk[b].car_id],
                    "return_update_booking")
       ELSE ReturnEarly(p, Fail(BookingNotFound))

\* SELECT car_id FROM bookings WHERE id = %s AND active = true
ReturnSelect(p) ==
    /\ pc[p] = "return_select"
    /\ LET bk == View(p).bookings
           b == call[p].booking_id IN
       IF b \in DOMAIN bk /\ bk[b].active
       THEN Fetched(p, [found[p] EXCEPT !.car_id = bk[b].car_id],
                    "return_update_booking")
       ELSE ReturnEarly(p, Fail(BookingNotFound))

\* UPDATE bookings SET active = false, end_date = NOW() WHERE id = %s
ReturnUpdateBooking(p) ==
    /\ pc[p] = "return_update_booking"
    /\ Executed(p, W("update_booking_returned", call[p].booking_id, 0, 0, FALSE),
                "return_update_car")

\* mutant: the car is not made available again
ReturnUpdateCarSkipped(p) ==
    /\ pc[p] = "return_update_car"
    /\ Fetched(p, found[p], "return_commit")

\* UPDATE cars SET available = true WHERE id = %s
ReturnUpdateCar(p) ==
    /\ pc[p] = "return_update_car"
    /\ Executed(p, W("update_car_available", found[p].car_id, 0, 0, TRUE),
                "return_commit")

ReturnCommit(p) ==
    /\ pc[p] = "return_commit"
    /\ CommitAs(p, Ok(CarReturned, 0))

(* ------------------------ admin_delete_booking ------------------------ *)
\* mutant: the car is made available whatever the booking's active flag is
AdminDeleteSelectAlwaysFrees(p) ==
    /\ pc[p] = "admin_delete_select"
    /\ LET bk == View(p).bookings
           b == call[p].booking_id IN
       IF b \notin DOMAIN bk
       THEN ReturnEarly(p, Fail(AdminBookingNotFound))
       ELSE Fetched(p, [found[p] EXCEPT !.car_id = bk[b].car_id,
                                        !.is_active = bk[b].active],
                    "admin_delete_update_car")

\* SELECT car_id, active FROM bookings WHERE id = %s
AdminDeleteSelect(p) ==
    /\ pc[p] = "admin_delete_select"
    /\ LET bk == View(p).bookings
           b == call[p].booking_id IN
       IF b \notin DOMAIN bk
       THEN ReturnEarly(p, Fail(AdminBookingNotFound))
       ELSE Fetched(p, [found[p] EXCEPT !.car_id = bk[b].car_id,
                                        !.is_active = bk[b].active],
                    IF bk[b].active THEN "admin_delete_update_car"
                                    ELSE "admin_delete_delete")

\* if is_active: UPDATE cars SET available = true WHERE id = %s
AdminDeleteUpdateCar(p) ==
    /\ pc[p] = "admin_delete_update_car"
    /\ Executed(p, W("update_car_available", found[p].car_id, 0, 0, TRUE),
                "admin_delete_delete")

\* DELETE FROM bookings WHERE id = %s
AdminDeleteDelete(p) ==
    /\ pc[p] = "admin_delete_delete"
    /\ Executed(p, W("delete_booking", call[p].booking_id, 0, 0, FALSE),
                "admin_delete_commit")

AdminDeleteCommit(p) ==
    /\ pc[p] = "admin_delete_commit"
    /\ CommitAs(p, Ok(BookingDeleted, 0))

(* --------------------------- approve_booking -------------------------- *)
\* mutant: the SELECT without `AND pending = true`
ApproveSelectAnyBooking(p) ==
    /\ pc[p] = "approve_select"
    /\ LET bk == View(p).bookings
           b == call[p].booking_id IN
       IF b \in DOMAIN bk
       THEN Fetched(p, [found[p] EXCEPT !.car_id = bk[b].car_id],
                    "approve_update_booking")
       ELSE ReturnEarly(p, Fail(NotFoundOrProcessed))

\* SELECT id, car_id FROM bookings WHERE id = %s AND pending = true
ApproveSelect(p) ==
    /\ pc[p] = "approve_select"
    /\ LET bk == View(p).bookings
           b == call[p].booking_id IN
       IF b \in DOMAIN bk /\ bk[b].pending
       THEN Fetched(p, [found[p] EXCEPT !.car_id = bk[b].car_id],
                    "approve_update_booking")
       ELSE ReturnEarly(p, Fail(NotFoundOrProcessed))

\* UPDATE bookings SET pending = false WHERE id = %s
ApproveUpdateBooking(p) ==
    /\ pc[p] = "approve_update_booking"
    /\ Executed(p, W("update_booking_pending", call[p].booking_id, 0, 0, FALSE),
                "approve_update_car")

\* UPDATE cars SET available = false WHERE id = %s
ApproveUpdateCar(p) ==
    /\ pc[p] = "approve_update_car"
    /\ Executed(p, W("update_car_available", found[p].car_id, 0, 0, FALSE),
                "approve_commit")

ApproveCommit(p) ==
    /\ pc[p] = "approve_commit"
    /\ CommitAs(p, Ok(BookingApproved, 0))

(* --------------------------- reject_booking --------------------------- *)
\* mutant: the SELECT without `AND pending = true`
RejectSelectAnyBooking(p) ==
    /\ pc[p] = "reject_select"
    /\ IF call[p].booking_id \in DOMAIN View(p).bookings
       THEN Fetched(p, found[p], "reject_delete")
       ELSE ReturnEarly(p, Fail(NotFoundOrProcessed))

\* SELECT id FROM bookings WHERE id = %s AND pending = true
RejectSelect(p) ==
    /\ pc[p] = "reject_select"
    /\ LET bk == View(p).bookings
           b == call[p].booking_id IN
       IF b \in DOMAIN bk /\ bk[b].pending
       THEN Fetched(p, found[p], "reject_delete")
       ELSE ReturnEarly(p, Fail(NotFoundOrProcessed))

\* DELETE FROM bookings WHERE id = %s
RejectDelete(p) ==
    /\ pc[p] = "reject_delete"
    /\ Executed(p, W("delete_booking", call[p].booking_id, 0, 0, FALSE),
                "reject_commit")

RejectCommit(p) ==
    /\ pc[p] = "reject_commit"
    /\ CommitAs(p, Ok(BookingRejected, 0))

(* ---------------------------- delete_dealer --------------------------- *)
\* SELECT id FROM dealers WHERE id = %s
DeleteDealerSelect(p) ==
    /\ pc[p] = "delete_dealer_select"
    /\ IF call[p].dealer_id \in View(p).dealers
       THEN Fetched(p, found[p], "delete_dealer_select_cars")
       ELSE ReturnEarly(p, Fail(DealerNotFound))

\* SELECT id FROM cars WHERE dealer_id = %s
DeleteDealerSelectCars(p) ==
    /\ pc[p] = "delete_dealer_select_cars"
    /\ LET cs == View(p).cars
           car_ids == {c \in DOMAIN cs : cs[c].dealer_id = call[p].dealer_id} IN
       Fetched(p, [found[p] EXCEPT !.car_ids = car_ids],
               IF car_ids # {} THEN "delete_dealer_images"
                               ELSE "delete_dealer_cars")

\* mutant: the images of the dealer's cars are left behind
DeleteDealerImagesSkipped(p) ==
    /\ pc[p] = "delete_dealer_images"
    /\ Fetched(p, found[p], "delete_dealer_cars")

\* if car_ids: DELETE FROM car_images WHERE car_id = ANY(%s)
DeleteDealerImages(p) ==
    /\ pc[p] = "delete_dealer_images"
    /\ Executed(p, WAny("delete_car_images", found[p].car_ids),
                "delete_dealer_cars")

\* DELETE FROM cars WHERE dealer_id = %s
DeleteDealerCars(p) ==
    /\ pc[p] = "delete_dealer_cars"
    /\ Executed(p, W("delete_cars_of_dealer", call[p].dealer_id, 0, 0, FALSE),
                "delete_dealer_row")

\* DELETE FROM dealers WHERE id = %s
DeleteDealerRow(p) ==
    /\ pc[p] = "delete_dealer_row"
    /\ Executed(p, W("delete_dealer", call[p].dealer_id, 0, 0, FALSE),
                "delete_dealer_commit")

DeleteDealerCommit(p) ==
    /\ pc[p] = "delete_dealer_commit"
    /\ CommitAs(p, Ok(DealerDeleted, 0))

(* -------------------------- delete_dealer_car ------------------------- *)
\* SELECT id FROM cars WHERE id = %s AND dealer_id = %s
DeleteCarSelect(p) ==
    /\ pc[p] = "delete_car_select"
    /\ LET cs == View(p).cars
           car_id == call[p].car_id IN
       IF car_id \in DOMAIN cs /\ cs[car_id].dealer_id = call[p].dealer_id
       THEN Fetched(p, found[p], "delete_car_check_booked")
       ELSE ReturnEarly(p, Fail(CarNotYours))

\* SELECT id FROM bookings WHERE car_id = %s AND active = true
DeleteCarCheckBooked(p) ==
    /\ pc[p] = "delete_car_check_booked"
    /\ LET bk == View(p).bookings IN
       IF \E b \in DOMAIN bk : bk[b].car_id = call[p].car_id /\ bk[b].active
       THEN ReturnEarly(p, Fail(CarIsBooked))
       ELSE Fetched(p, found[p], "delete_car_images")

\* DELETE FROM car_images WHERE car_id = %s
DeleteCarImages(p) ==
    /\ pc[p] = "delete_car_images"
    /\ Executed(p, WAny("delete_car_images", {call[p].car_id}), "delete_car_row")

\* DELETE FROM cars WHERE id = %s
DeleteCarRow(p) ==
    /\ pc[p] = "delete_car_row"
    /\ Executed(p, W("delete_car", call[p].car_id, 0, 0, FALSE), "delete_car_commit")

DeleteCarCommit(p) ==
    /\ pc[p] = "delete_car_commit"
    /\ CommitAs(p, Ok(CarDeleted, 0))

(* -------------------------- register_customer ------------------------- *)
NewlyRegistered == [ok |-> TRUE, msg |-> "True", id |-> 0]
AlreadyExists == [ok |-> FALSE, msg |-> "False", id |-> 0]
RegisterFailed == [ok |-> FALSE, msg |-> "None", id |-> 0]

CustomerRowsOf(cs, telegram_id) ==
    {i \in DOMAIN cs : cs[i].telegram_id = telegram_id}

\* mutant: the existence check left out
RegisterSelectBlind(p) ==
    /\ pc[p] = "register_select"
    /\ Fetched(p, found[p], "register_insert")

\* SELECT id FROM customers WHERE telegram_id = %s
RegisterSelect(p) ==
    /\ pc[p] = "register_select"
    /\ IF CustomerRowsOf(View(p).customers, call[p].telegram_id) # {}
       THEN ReturnEarly(p, AlreadyExists)
       ELSE Fetched(p, found[p], "register_insert")

\* INSERT INTO customers (telegram_id, name, registration_date)
RegisterInsert(p) ==
    /\ pc[p] = "register_insert"
    /\ Executed(p, W("insert_customer", 0, call[p].telegram_id, call[p].name, FALSE),
                "register_commit")

RegisterCommit(p) ==
    /\ pc[p] = "register_commit"
    /\ CommitAs(p, NewlyRegistered)

(* ------------------------- get_available_cars ------------------------ *)
\* what a list function returns: the fetched rows, [] after an exception
ListResult(rows) == [rows |-> rows]

\* img.image_url of a car the LEFT JOIN found no primary image for
NoImage == [id |-> 0, car_id |-> 0, image_url |-> 0, is_primary |-> FALSE]

\* FROM cars c JOIN dealers d ON c.dealer_id = d.id
\* LEFT JOIN (SELECT car_id, image_url FROM car_images WHERE is_primary = true)
\*     img ON c.id = img.car_id
\* WHERE c.available = true
AvailableJoin(d) ==
    UNION {LET primary == {j \in d.car_images : j.car_id = c /\ j.is_primary} IN
           {[id |-> c, dealer_id |-> d.cars[c].dealer_id, image |-> i] :
               i \in IF primary = {} THEN {NoImage} ELSE primary} :
           c \in {k \in DOMAIN d.cars :
                     d.cars[k].available /\ d.cars[k].dealer_id \in d.dealers}}

\* ORDER BY c.id: the orders of the joined rows that ascend in car id (rows
\* of one car come in any order)
OrderedById(R) ==
    {q \in [1..Cardinality(R) -> R] :
        /\ {q[i] : i \in 1..Cardinality(R)} = R
        /\ \A i, j \in 1..Cardinality(R) : i < j => q[i].id <= q[j].id}

\* LIMIT %s OFFSET %s
LimitOffset(q, limit, offset) ==
    SubSeq(q, offset + 1, IF offset + limit < Len(q) THEN offset + limit ELSE Len(q))

\* the columns of the SELECT list
Selected(q) ==
    [i \in DOMAIN q |-> [id |-> q[i].id, dealer_id |-> q[i].dealer_id,
                         image_url |-> q[i].image.image_url]]

\* mutant: the query without `WHERE c.available = true`
ListSelectAllCars(p) ==
    /\ pc[p] = "list_select"
    /\ \E q \in OrderedById({[id |-> c, dealer_id |-> cars[c].dealer_id,
                               image |-> NoImage] : c \in DOMAIN cars}) :
          ReturnEarly(p, ListResult(Selected(
              LimitOffset(q, call[p].limit, call[p].offset))))

\* cur.execute(SELECT ...); return cur.fetchall()
ListSelect(p) ==
    /\ pc[p] = "list_select"
    /\ \E q \in OrderedById(AvailableJoin(View(p))) :
          ReturnEarly(p, ListResult(Selected(
              LimitOffset(q, call[p].limit, call[p].offset))))

(* --------------------------- add_dealer_car --------------------------- *)
\* INSERT INTO cars (dealer_id, make, model, year, available)
\* VALUES (%s, %s, %s, %s, true) RETURNING id
AddCarInsert(p) ==
    /\ pc[p] = "add_car_insert"
    /\ cars_id_seq' = cars_id_seq + 1
    /\ found' = [found EXCEPT ![p].car_id = cars_id_seq]
    /\ Write(p, W("insert_car", cars_id_seq, call[p].dealer_id, 0, TRUE))
    /\ Goto(p, "add_car_insert_image")
    /\ UNCHANGED <<dbVars, bookings_id_seq, car_images_id_seq,
                   call, res, ncommit, pre, lastBooked, convVars>>

\* add_dealer_car inserting its image with is_primary = false
AddCarInsertImageNotPrimary(p) ==
    /\ pc[p] = "add_car_insert_image"
    /\ car_images_id_seq' = car_images_id_seq + 1
    /\ Write(p, W("insert_image", car_images_id_seq, found[p].car_id,
                  call[p].image_url, FALSE))
    /\ Goto(p, "add_car_commit")
    /\ UNCHANGED <<dbVars, bookings_id_seq, cars_id_seq,
                   call, found, res, ncommit, pre, lastBooked, convVars>>

\* INSERT INTO car_images (car_id, image_url, is_primary) VALUES (%s, %s, true)
AddCarInsertImage(p) ==
    /\ pc[p] = "add_car_insert_image"
    /\ car_images_id_seq' = car_images_id_seq + 1
    /\ Write(p, W("insert_image", car_images_id_seq, found[p].car_id,
                  call[p].image_url, TRUE))
    /\ Goto(p, "add_car_commit")
    /\ UNCHANGED <<dbVars, bookings_id_seq, cars_id_seq,
                   call, found, res, ncommit, pre, lastBooked, convVars>>

AddCarCommit(p) ==
    /\ pc[p] = "add_car_commit"
    /\ CommitAs(p, Ok("", found[p].car_id))

(* -------------------------- update_car_image -------------------------- *)
ImagesOf(imgs, car_id, is_primary) ==
    {i \in imgs : i.car_id = car_id /\ i.is_primary = is_primary}

\* SELECT id FROM cars WHERE id = %s
UpdateImageSelectCar(p) ==
    /\ pc[p] = "update_image_select_car"
    /\ IF call[p].car_id \in DOMAIN View(p).cars
       THEN Fetched(p, found[p], IF call[p].is_primary
                                 THEN "update_image_clear_primary"
                                 ELSE "update_image_select")
       ELSE ReturnEarly(p, Fail(CarNotFoundShort))

\* mutant: a new primary image is inserted while the old one keeps its flag
UpdateImageInsertsWithoutClearing(p) ==
    /\ pc[p] = "update_image_clear_primary"
    /\ Fetched(p, found[p], "update_image_insert")

\* if is_primary: UPDATE car_images SET is_primary = FALSE WHERE car_id = %s
UpdateImageClearPrimary(p) ==
    /\ pc[p] = "update_image_clear_primary"
    /\ Executed(p, W("clear_primary", call[p].car_id, 0, 0, FALSE),
                "update_image_select")

\* SELECT id FROM car_images WHERE car_id = %s AND is_primary = %s
\* fetchone() takes whichever matching row the backend returns first.
UpdateImageSelect(p) ==
    /\ pc[p] = "update_image_select"
    /\ LET existing == ImagesOf(View(p).car_images, call[p].car_id,
                                call[p].is_primary) IN
       IF existing = {}
       THEN Fetched(p, found[p], "update_image_insert")
       ELSE \E i \in existing :
                Fetched(p, [found[p] EXCEPT !.image_id = i.id], "update_image_update")

\* UPDATE car_images SET image_url = %s, is_primary = %s WHERE id = %s
UpdateImageUpdate(p) ==
    /\ pc[p] = "update_image_update"
    /\ res' = [res EXCEPT ![p] = Ok(UpdatedImage, found[p].image_id)]
    /\ Write(p, W("update_image", found[p].image_id, 0, call[p].image_url,
                  call[p].is_primary))
    /\ Goto(p, "update_image_commit")
    /\ UNCHANGED <<dbVars, seqVars, call, found, ncommit, pre, lastBooked, convVars>>

\* INSERT INTO car_images (car_id, image_url, is_primary)
\* VALUES (%s, %s, %s) RETURNING id
UpdateImageInsert(p) ==
    /\ pc[p] = "update_image_insert"
    /\ car_images_id_seq' = car_images_id_seq + 1
    /\ res' = [res EXCEPT ![p] = Ok(AddedNewImage, car_images_id_seq)]
    /\ Write(p, W("insert_image", car_images_id_seq, call[p].car_id,
                  call[p].image_url, call[p].is_primary))
    /\ Goto(p, "update_image_commit")
    /\ UNCHANGED <<dbVars, bookings_id_seq, cars_id_seq,
                   call, found, ncommit, pre, lastBooked, convVars>>

\* conn.commit(); return True, result
UpdateImageCommit(p) ==
    /\ pc[p] = "update_image_commit"
    /\ CommitAs(p, res[p])

(* -------------------------- refresh_car_image ------------------------- *)
\* SELECT id FROM cars WHERE id = %s
RefreshSelectCar(p) ==
    /\ pc[p] = "refresh_select_car"
    /\ IF call[p].car_id \in DOMAIN View(p).cars
       THEN Fetched(p, found[p], "refresh_select_primary")
       ELSE ReturnEarly(p, Fail(CarNotFoundShort))

\* SELECT id FROM car_images WHERE car_id = %s AND is_primary = TRUE
RefreshSelectPrimary(p) ==
    /\ pc[p] = "refresh_select_primary"
    /\ LET primary == ImagesOf(View(p).car_images, call[p].car_id, TRUE) IN
       IF primary = {}
       THEN Fetched(p, found[p], "refresh_insert")
       ELSE \E i \in primary :
                Fetched(p, [found[p] EXCEPT !.image_id = i.id], "refresh_update")

\* UPDATE car_images SET image_url = %s WHERE id = %s
RefreshUpdate(p) ==
    /\ pc[p] = "refresh_update"
    /\ res' = [res EXCEPT ![p] = Ok(UpdatedPrimaryImage, call[p].car_id)]
    /\ Write(p, W("update_image_url", found[p].image_id, 0, call[p].image_url, FALSE))
    /\ Goto(p, "refresh_commit")
    /\ UNCHANGED <<dbVars, seqVars, call, found, ncommit, pre, lastBooked, convVars>>

\* INSERT INTO car_images (car_id, image_url, is_primary) VALUES (%s, %s, TRUE)
RefreshInsert(p) ==
    /\ pc[p] = "refresh_insert"
    /\ car_images_id_seq' = car_images_id_seq + 1
    /\ res' = [res EXCEPT ![p] = Ok(CreatedPrimaryImage, call[p].car_id)]
    /\ Write(p, W("insert_image", car_images_id_seq, call[p].car_id,
                  call[p].image_url, TRUE))
    /\ Goto(p, "refresh_commit")
    /\ UNCHANGED <<dbVars, bookings_id_seq, cars_id_seq,
                   call, found, ncommit, pre, lastBooked, convVars>>

\* conn.commit(); return True, result
RefreshCommit(p) ==
    /\ pc[p] = "refresh_commit"
    /\ CommitAs(p, res[p])

(* ----------------------------- add_dealer ----------------------------- *)
DealerExists == "Dealer with this Telegram ID already exists."

\* SELECT id FROM dealers WHERE telegram_id = %s
AddDealerSelect(p) ==
    /\ pc[p] = "add_dealer_select"
    /\ IF \E d \in View(p).dealers : dealer_cols[d].telegram_id = call[p].telegram_id
       THEN ReturnEarly(p, Fail(DealerExists))
       ELSE Fetched(p, found[p], "add_dealer_insert")

\* INSERT INTO dealers (telegram_id, name) VALUES (%s, %s) RETURNING id
AddDealerInsert(p) ==
    /\ pc[p] = "add_dealer_insert"
    /\ dealer_cols' = Append(dealer_cols, [telegram_id |-> call[p].telegram_id,
                                           name |-> call[p].name])
    /\ Write(p, W("insert_dealer", Len(dealer_cols) + 1, 0, 0, FALSE))
    /\ Goto(p, "add_dealer_commit")
    /\ UNCHANGED <<dbVars, seqVars, call, found, res, ncommit, pre, lastBooked,
                   fsm, data, hpc, screen, ADMIN_GROUP_ID, pfsm, pdata, panel, ppc,
                   update, clockVars>>

\* conn.commit(); return True, dealer_id
AddDealerCommit(p) ==
    /\ pc[p] = "add_dealer_commit"
    /\ CommitAs(p, Ok("", tx[p][Len(tx[p])].id))

(* ------------------------------- calls -------------------------------- *)
AddCarCalls ==
    {[NoCall EXCEPT !.op = "add_dealer_car", !.dealer_id = d, !.image_url = u] :
        d \in DealerIds, u \in ImageUrls}
UpdateImageCalls ==
    {[NoCall EXCEPT !.op = "update_car_image", !.car_id = k, !.image_url = u,
                    !.is_primary = f] :
        k \in AllCarIds, u \in ImageUrls, f \in BOOLEAN}
RefreshImageCalls ==
    {[NoCall EXCEPT !.op = "refresh_car_image", !.car_id = k, !.image_url = u] :
        k \in AllCarIds, u \in ImageUrls}
ListCalls ==
    {[NoCall EXCEPT !.op = "get_available_cars", !.limit = l, !.offset = o] :
        l \in 0..MaxLimit, o \in 0..MaxOffset}
ImageCalls == AddCarCalls \cup UpdateImageCalls \cup RefreshImageCalls

BookCalls ==
    {[NoCall EXCEPT !.op = "book_car", !.customer_id = c, !.car_id = k] :
        c \in CustomerIds, k \in CarIds}
BookingIdCalls(op) ==
    {[NoCall EXCEPT !.op = op, !.booking_id = b] : b \in BookingIds}
DeleteDealerCalls ==
    {[NoCall EXCEPT !.op = "delete_dealer", !.dealer_id = d] : d \in DealerIds}
DeleteCarCalls ==
    {[NoCall EXCEPT !.op = "delete_dealer_car", !.dealer_id = d, !.car_id = k] :
        d \in DealerIds, k \in CarIds}
RegisterCalls ==
    {[NoCall EXCEPT !.op = "register_customer", !.telegram_id = t, !.name = n] :
        t \in TelegramIds, n \in Names}

EngineCalls ==
    BookCalls \cup BookingIdCalls("return_car")
        \cup BookingIdCalls("admin_delete_booking")
        \cup BookingIdCalls("approve_booking") \cup BookingIdCalls("reject_booking")
        \cup DeleteDealerCalls \cup DeleteCarCalls

\* the first statement of each engine function
Entry(op) ==
    CASE op = "book_car" -> "book_check_customer"
      [] op = "return_car" -> "return_select"
      [] op = "admin_delete_booking" -> "admin_delete_select"
      [] op = "approve_booking" -> "approve_select"
      [] op = "reject_booking" -> "reject_select"
      [] op = "delete_dealer" -> "delete_dealer_select"
      [] op = "delete_dealer_car" -> "delete_car_select"
      [] op = "register_customer" -> "register_select"
      [] op = "add_dealer" -> "add_dealer_select"
      [] op = "add_dealer_car" -> "add_car_insert"
      [] op = "get_available_cars" -> "list_select"
      [] op = "update_car_image" -> "update_image_select_car"
      [] op = "refresh_car_image" -> "refresh_select_car"

\* book_car calls that have not drawn their booking id yet
BookingsToCome ==
    Cardinality({q \in Procs :
        pc[q] \in {"book_check_customer", "book_check_car", "book_insert"}})

\* Caller p enters engine function c.op; the model stops drawing booking ids
\* at MaxBookings, car ids after MaxNewCars new cars, image ids after
\* MaxNewImages new images and dealer ids after NumNewDealers new dealers.
BeginCall(p, c) ==
    /\ pc[p] = "idle"
    /\ c.op = "book_car" => bookings_id_seq + BookingsToCome <= MaxBookings
    /\ c.op = "add_dealer_car" => cars_id_seq <= NumCars + MaxNewCars
    /\ c.op = "add_dealer" => Len(dealer_cols) < NumDealers + NumNewDealers
    /\ c.op \in {"add_dealer_car", "update_car_image", "refresh_car_image"}
         => car_images_id_seq <= NumCars + MaxNewImages
    /\ call' = [call EXCEPT ![p] = c]
    /\ Goto(p, Entry(c.op))
    /\ found' = [found EXCEPT ![p] = NoFound]
    /\ res' = [res EXCEPT ![p] = NoResult]
    /\ ncommit' = [ncommit EXCEPT ![p] = 0]
    /\ UNCHANGED <<dbVars, seqVars, tx>>

\* The statements of the engine functions on bookings, cars and dealers.
Statement(p) ==
    \/ BookCheckCustomer(p) \/ BookCheckCar(p) \/ BookInsert(p)
    \/ BookUpdateCar(p) \/ BookCommit(p)
    \/ ReturnSelect(p) \/ ReturnUpdateBooking(p) \/ ReturnUpdateCar(p)
    \/ ReturnCommit(p)
    \/ AdminDeleteSelect(p) \/ AdminDeleteUpdateCar(p) \/ AdminDeleteDelete(p)
    \/ AdminDeleteCommit(p)
    \/ ApproveSelect(p) \/ ApproveUpdateBooking(p) \/ ApproveUpdateCar(p)
    \/ ApproveCommit(p)
    \/ RejectSelect(p) \/ RejectDelete(p) \/ RejectCommit(p)
    \/ DeleteDealerSelect(p) \/ DeleteDealerSelectCars(p) \/ DeleteDealerImages(p)
    \/ DeleteDealerCars(p) \/ DeleteDealerRow(p) \/ DeleteDealerCommit(p)
    \/ DeleteCarSelect(p) \/ DeleteCarCheckBooked(p) \/ DeleteCarImages(p)
    \/ DeleteCarRow(p) \/ DeleteCarCommit(p)

(* -------------------------- backend failures -------------------------- *)
\* what the `except` clauses of each engine function return for a
\* psycopg2.OperationalError
ErrorResult(op) ==
    CASE op = "book_car" -> Fail(BookDbError)
      [] op = "return_car" -> Fail(ReturnDbError)
      [] op = "register_customer" -> RegisterFailed
      [] op = "get_available_cars" -> ListResult(<<>>)
      [] OTHER -> Fail(DatabaseErrorRaw)

\* mutant: the writes made before the failure stay
FailsKeepingWrites(p) ==
    /\ pc[p] \notin {"idle", "done"}
    /\ ReturnEarly(p, ErrorResult(call[p].op))

\* The statement caller p is at (get_connection() on the way to the first
\* one, cur.execute, conn.commit) raises psycopg2.OperationalError: the
\* `with` block of the connection rolls the transaction back and the
\* `except` clause turns the exception into the function's failure result.
Fails(p) ==
    /\ pc[p] \notin {"idle", "done"}
    /\ tx' = [tx EXCEPT ![p] = <<>>]
    /\ res' = [res EXCEPT ![p] = ErrorResult(call[p].op)]
    /\ Goto(p, "done")
    /\ UNCHANGED <<dbVars, seqVars, call, found, ncommit, pre, lastBooked, convVars>>

(* ------------------------ session of a conversation ------------------ *)
\* CustomerStates, and None for a conversation without a state
FsmNone == "None"
SelectingLanguage == "selecting_language"
ViewingCars == "viewing_cars"
BookingSelectStartDate == "booking_select_start_date"
BookingSelectStartTime == "booking_select_start_time"
BookingSelectEndDate == "booking_select_end_date"
BookingSelectEndTime == "booking_select_end_time"
ConfirmingBooking == "confirming_booking"

Languages == {"en", "ru"}

\* A key the session data does not hold reads as None: written "absent" for
\* the language keys, 0 for a car id, a date or a time, -1 for the page and
\* the empty sequence for the cached rows and the date-time pairs.
Absent == "absent"
NoPage == 0 - 1

\* the session data after state.clear(): no key at all
EmptySession ==
    [msgs |-> Absent, language |-> Absent, cars |-> <<>>, current_page |-> NoPage,
     current_car_id |-> 0, car_id |-> 0, start_date |-> 0, start_time |-> 0,
     start_datetime |-> <<>>, end_date |-> 0, end_time |-> 0,
     end_datetime |-> <<>>]

\* state.clear(): the state becomes None and the data {}
Cleared(d) == EmptySession

\* state.update_data(**kv)
UpdateData(d, kv) == [k \in DOMAIN d |-> IF k \in DOMAIN kv THEN kv[k] ELSE d[k]]

\* state_data.get('msgs', Messages('en')): the language the handler writes in
MsgsOf(d) == IF d.msgs = Absent THEN "en" ELSE d.msgs

\* a message of the bot: its text (by key), the language it is written in and
\* the buttons of its keyboard
Screen(key, lang, kb) == [key |-> key, lang |-> lang, kb |-> kb]
NoScreen == Screen("none", "en", {})

(* ------------- the chats and the sessions of the panels -------------- *)
\* The chats the panels are used from: the group, and another chat that still
\* shows keyboards of the panels (it was the admin group under an earlier
\* configuration).  The users writing in them are the TelegramIds; the FSM
\* keeps one state and one session for each (chat, user).
Group == "group"
OtherChat == "other"
PanelChats == {Group, OtherChat}
\* ADMIN_GROUP_ID when the environment does not set it
NoGroup == "None"

\* AdminStates and DealerStates
ViewingBookings == "AdminStates:viewing_bookings"
ConfirmingDeleteBooking == "AdminStates:confirming_delete_booking"
ManagingDealers == "AdminStates:managing_dealers"
ConfirmingDeleteDealer == "AdminStates:confirming_delete_dealer"
AddingDealerName == "AdminStates:adding_dealer_name"
AddingDealerTelegramId == "AdminStates:adding_dealer_telegram_id"
AddingCar == "DealerStates:adding_car"
AddingCarModel == "DealerStates:adding_car_model"
AddingCarYear == "DealerStates:adding_car_year"
AddingCarPhoto == "DealerStates:adding_car_photo"
DealerViewingCars == "DealerStates:viewing_cars"
ConfirmingDeleteCar == "DealerStates:confirming_delete_car"
ViewingStats == "DealerStates:viewing_stats"
RefreshingCarPhoto == "DealerStates:refreshing_car_photo"

(* ------------------------------- texts -------------------------------- *)
\* A text message: `pad` blanks around `len` other characters, which are the
\* digits of the number `val` when `digits` holds and letters otherwise.
Text(pad, len, digits, val) == [pad |-> pad, len |-> len, digits |-> digits, val |-> val]
NoText == Text(0, 0, FALSE, 0)
Letters(pad, len) == Text(pad, len, FALSE, 0)
Numeral(pad, val) == Text(pad, IF val < 10 THEN 1 ELSE 4, TRUE, val)

\* message.text.strip()
Strip(t) == [t EXCEPT !.pad = 0]
\* len(s)
StrLen(t) == t.len + t.pad
\* int(s) raises ValueError unless s is a numeral
IsInt(t) == t.digits /\ t.pad = 0
\* all(c.isalpha() or c.isspace() for c in s)
IsAlpha(t) == ~t.digits

\* datetime.now().year
CurrentYear == 2026
MinYear == 1900
MinDealerName == 2
MaxDealerName == 50
MinCarText == 1
MaxCarText == 50


(* ------------------------------ sessions ------------------------------ *)
\* the session data of a panel conversation after state.clear()
EmptyPanelSession ==
    [msgs |-> Absent, booking_id_to_delete |-> 0, dealer_id_to_delete |-> 0,
     car_id_to_delete |-> 0, dealer_name |-> NoText, car_make |-> NoText,
     car_model |-> NoText, car_year |-> 0, refresh_car_id |-> 0]

NoPanelHandler == [h |-> "none", chat |-> "none", user |-> 0, arg |-> 0]

\* the columns of the dealers at the start: the first dealer is user 1 of the
\* chats, the others are users who are in none of them
InitialDealerCols ==
    [d \in DealerIds |->
        [telegram_id |-> IF d = 1 THEN 1 ELSE NumUsers + d - 1, name |-> MinDealerName]]

\* An update the panel handlers receive from user `user` in chat `chat`: a
\* command, a callback query with data `cb`, or a message
Update(chat, user, command, cb, msg) ==
    [chat |-> chat, user |-> user, command |-> command, cb |-> cb, msg |-> msg]
NoButton == [words |-> <<>>, arg |-> 0]
NoMessage == [photo |-> 0, text |-> NoText]
NoUpdate == Update("none", 0, "", NoButton, NoMessage)

\* the panels before anybody used them
\* a time of day, and the keyboard `offered` holds before one was generated
Clock(hour, minute) == [hour |-> hour, minute |-> minute]
NoOffer == [for_start |-> FALSE, today |-> FALSE, slots |-> {}, at |-> Clock(0, 0),
            generated |-> FALSE]

\* get_dealer_stats was not called yet
NoStats == [called |-> FALSE, none |-> TRUE, dealer_id |-> 0, total_cars |-> 0,
            total_bookings |-> 0, active_bookings |-> 0, completed_bookings |-> 0,
            car_stats |-> <<>>]

PanelsIdle ==
    /\ dealer_cols = InitialDealerCols
    /\ update = NoUpdate
    /\ now = Clock(0, 0)
    /\ offered = NoOffer
    /\ stats = NoStats
    /\ pfsm = [c \in PanelChats |-> [m \in TelegramIds |-> FsmNone]]
    /\ pdata = [c \in PanelChats |-> [m \in TelegramIds |-> EmptyPanelSession]]
    /\ ppc = NoPanelHandler

NoHandler == [h |-> "none", chat |-> 0, msgs |-> "en"]

(* ------------------------------- Init --------------------------------- *)
\* one primary image for each of the cars 1..NumCars
InitialImages ==
    {[id |-> c, car_id |-> c, image_url |-> 1, is_primary |-> TRUE] : c \in 1..NumCars}

\* the tables but car_images, and the callers, at the start
InitRest ==
    /\ dealers = DealerIds
    /\ cars = [c \in 1..NumCars |->
                 [dealer_id |-> ((c - 1) % NumDealers) + 1, available |-> TRUE]]
    /\ bookings = <<>>
    /\ bookings_id_seq = 1
    /\ cars_id_seq = NumCars + 1
    /\ car_images_id_seq = NumCars + 1
    /\ customers = <<>>
    /\ pc = [p \in Procs |-> "idle"]
    /\ call = [p \in Procs |-> NoCall]
    /\ found = [p \in Procs |-> NoFound]
    /\ tx = [p \in Procs |-> <<>>]
    /\ res = [p \in Procs |-> NoResult]
    /\ ncommit = [p \in Procs |-> 0]
    /\ pre = Db
    /\ lastBooked = 0
    /\ fsm = [u \in Chats |-> FsmNone]
    /\ data = [u \in Chats |-> EmptySession]
    /\ hpc = NoHandler
    /\ screen = [u \in Chats |-> NoScreen]
    /\ ADMIN_GROUP_ID = Group
    /\ PanelsIdle
    /\ panel = [c \in PanelChats |-> [key |-> "none", kb |-> {}]]

Init ==
    /\ car_images = InitialImages
    /\ InitRest

\* Some cars have no image row yet: get_available_cars LEFT JOINs the
\* images, and refresh_car_image creates the primary image when it finds none.
InitImages ==
    /\ car_images \in SUBSET InitialImages
    /\ InitRest

(* ------------- Spec: the bot, one engine call at a time --------------- *)
\* The one event loop of main.py: the caller of every engine function.
Bot == 1

Begin ==
    /\ \E c \in EngineCalls : BeginCall(Bot, c)
    /\ pre' = Db
    /\ UNCHANGED <<lastBooked, convVars>>

\* The call returned to its handler.
ReturnToHandler ==
    /\ pc[Bot] = "done"
    /\ Goto(Bot, "idle")
    /\ lastBooked' = IF call[Bot].op = "book_car" /\ res[Bot].ok
                      THEN res[Bot].id ELSE 0
    /\ pre' = Db
    /\ call' = [call EXCEPT ![Bot] = NoCall]
    /\ found' = [found EXCEPT ![Bot] = NoFound]
    /\ res' = [res EXCEPT ![Bot] = NoResult]
    /\ ncommit' = [ncommit EXCEPT ![Bot] = 0]
    /\ UNCHANGED <<dbVars, seqVars, tx>>

\* The call returned; the bot is free for the next update.
Respond ==
    /\ ReturnToHandler
    /\ UNCHANGED convVars

\* A booking request awaiting the administrator's approval enters the table:
\* a row with pending = true, which leaves the car's available flag alone.
\* No function of src/ inserts such a row.
SubmitPendingBooking(customer_id, car_id) ==
    /\ \A p \in Procs : pc[p] = "idle"
    /\ bookings_id_seq <= MaxBookings
    /\ ActiveBookingsOf(bookings, customer_id) = {}
    /\ car_id \in DOMAIN cars /\ cars[car_id].available
    /\ bookings' = (bookings_id_seq :> BookingRow(customer_id, car_id, TRUE)) @@ bookings
    /\ bookings_id_seq' = bookings_id_seq + 1
    /\ pre' = [Db EXCEPT !.bookings = bookings']
    /\ lastBooked' = 0
    /\ UNCHANGED <<dealers, cars, car_images, customers, procVars,
                   cars_id_seq, car_images_id_seq, convVars>>

Next ==
    \/ Begin
    \/ Statement(Bot)
    \/ Respond
    \/ \E c \in CustomerIds, k \in CarIds : SubmitPendingBooking(c, k)

Spec == Init /\ [][Next]_vars

(* ------------- SpecFailure: Spec with a backend that fails ------------ *)
NextFailure ==
    \/ Next
    \/ Fails(Bot)

SpecFailure == Init /\ [][NextFailure]_vars

(* ------- SpecBookRace: book_car called over several connections ------- *)
BeginBookRace(p) ==
    /\ \E c \in BookCalls : BeginCall(p, c)
    /\ UNCHANGED <<pre, lastBooked, convVars>>

NextBookRace ==
    \E p \in Procs :
        \/ BeginBookRace(p)
        \/ BookCheckCustomer(p) \/ BookCheckCar(p) \/ BookInsert(p)
        \/ BookUpdateCar(p) \/ BookCommit(p)

SpecBookRace == Init /\ [][NextBookRace]_vars

(* -- SpecDeleteCarRace: delete_dealer_car and book_car, two connections - *)
BeginDeleteCarRace(p) ==
    /\ \E c \in BookCalls \cup DeleteCarCalls : BeginCall(p, c)
    /\ UNCHANGED <<pre, lastBooked, convVars>>

NextDeleteCarRace ==
    \E p \in Procs :
        \/ BeginDeleteCarRace(p)
        \/ BookCheckCustomer(p) \/ BookCheckCar(p) \/ BookInsert(p)
        \/ BookUpdateCar(p) \/ BookCommit(p)
        \/ DeleteCarSelect(p) \/ DeleteCarCheckBooked(p) \/ DeleteCarImages(p)
        \/ DeleteCarRow(p) \/ DeleteCarCommit(p)

SpecDeleteCarRace == Init /\ [][NextDeleteCarRace]_vars

(* ----- SpecList: get_available_cars between bookings and returns ----- *)
BeginList ==
    /\ \E c \in ListCalls \cup BookCalls \cup BookingIdCalls("return_car")
                  \cup DeleteCarCalls :
          BeginCall(Bot, c)
    /\ pre' = Db
    /\ UNCHANGED <<lastBooked, convVars>>

NextList ==
    \/ BeginList
    \/ ListSelect(Bot)
    \/ BookCheckCustomer(Bot) \/ BookCheckCar(Bot) \/ BookInsert(Bot)
    \/ BookUpdateCar(Bot) \/ BookCommit(Bot)
    \/ ReturnSelect(Bot) \/ ReturnUpdateBooking(Bot) \/ ReturnUpdateCar(Bot)
    \/ ReturnCommit(Bot)
    \/ DeleteCarSelect(Bot) \/ DeleteCarCheckBooked(Bot) \/ DeleteCarImages(Bot)
    \/ DeleteCarRow(Bot) \/ DeleteCarCommit(Bot)
    \/ Fails(Bot)
    \/ Respond

SpecList == InitImages /\ [][NextList]_vars

(* ---------- SpecImages: the car image functions, in sequence ---------- *)
BeginImages ==
    /\ \E c \in ImageCalls : BeginCall(Bot, c)
    /\ pre' = Db
    /\ UNCHANGED <<lastBooked, convVars>>

NextImages ==
    \/ BeginImages
    \/ AddCarInsert(Bot) \/ AddCarInsertImage(Bot) \/ AddCarCommit(Bot)
    \/ UpdateImageSelectCar(Bot) \/ UpdateImageClearPrimary(Bot)
    \/ UpdateImageSelect(Bot) \/ UpdateImageUpdate(Bot) \/ UpdateImageInsert(Bot)
    \/ UpdateImageCommit(Bot)
    \/ RefreshSelectCar(Bot) \/ RefreshSelectPrimary(Bot) \/ RefreshUpdate(Bot)
    \/ RefreshInsert(Bot) \/ RefreshCommit(Bot)
    \/ Respond

SpecImages == InitImages /\ [][NextImages]_vars

(* ------------- SpecRegister: register_customer, in sequence ----------- *)
BeginRegister ==
    /\ \E c \in RegisterCalls : BeginCall(Bot, c)
    /\ pre' = Db
    /\ UNCHANGED <<lastBooked, convVars>>

NextRegister ==
    \/ BeginRegister
    \/ RegisterSelect(Bot) \/ RegisterInsert(Bot) \/ RegisterCommit(Bot)
    \/ Respond

SpecRegister == Init /\ [][NextRegister]_vars

(* --------------- the customer conversation (handlers) ----------------- *)
\* db.get_customer_id(telegram_id): the values the call can return, 0 for None
\* (no row, or the `except` clause after a backend failure)
GetCustomerId(telegram_id) == CustomerRowsOf(customers, telegram_id) \cup {0}

\* db.get_car_details(car_id): TRUE for a result, FALSE for None (no car row
\* joined with its dealer, or the `except` clause after a backend failure)
GetCarDetails(car_id) ==
    {(car_id \in DOMAIN cars) /\ (cars[car_id].dealer_id \in dealers), FALSE}

\* db.get_available_cars(limit=100): the fetched rows, or [] after a failure
GetAvailableCars ==
    {Selected(q) : q \in OrderedById(AvailableJoin(Db))} \cup {<<>>}

(* ---- callback data, the keyboards that carry it, and the router ---- *)
\* The callback data of a button: its words, and the number after them (0 for
\* none).  "book_2" is Cb(<<"book">>, 2), "start_date_back" is
\* Cb(<<"start", "date", "back">>, 0).
Cb(words, arg) == [words |-> words, arg |-> arg]

BackToMenuButton == Cb(<<"back", "to", "menu">>, 0)
ListCarsButton == Cb(<<"list", "cars">>, 0)

\* The keyboards, as the set of the buttons whose handlers are modelled
\* (my_booking, contact_admin and the page buttons are left out).
LanguageKeyboard(show_back_button) ==
    {Cb(<<"lang", l>>, 0) : l \in Languages}
        \cup (IF show_back_button THEN {BackToMenuButton} ELSE {})

MainMenuKeyboard ==
    {Cb(<<"list", "cars", "command">>, 0), Cb(<<"change", "language">>, 0)}

CarListKeyboard(rows) ==
    {Cb(<<"car">>, rows[i].id) : i \in DOMAIN rows} \cup {BackToMenuButton}

CarDetailsKeyboard(car_id) == {Cb(<<"book">>, car_id), ListCarsButton}

GenerateDateKeyboard(for_start) ==
    {Cb(IF for_start THEN <<"start", "date">> ELSE <<"end", "date">>, d) : d \in Dates}
        \cup {ListCarsButton, BackToMenuButton}

GenerateTimeKeyboard(for_start) ==
    {Cb(IF for_start THEN <<"start", "time">> ELSE <<"end", "time">>, t) : t \in Times}
        \cup {Cb(IF for_start THEN <<"start", "date", "back">>
                              ELSE <<"end", "date", "back">>, 0),
              BackToMenuButton}

ConfirmKeyboard(car_id) == {Cb(<<"confirm", "booking">>, car_id), BackToMenuButton}

\* c.data.startswith(w + "_")
StartsWith(cb, w) ==
    /\ Len(w) <= Len(cb.words)
    /\ SubSeq(cb.words, 1, Len(w)) = w
    /\ (Len(cb.words) > Len(w) \/ cb.arg # 0)

\* c.data == w
Is(cb, w) == cb.words = w /\ cb.arg = 0

\* callback_data.replace("start_date_", ""), and the same for end_date_: the
\* date of a date button, "back" for start_date_back and end_date_back
DateStr(cb) == IF cb.words[Len(cb.words)] = "back" THEN Back ELSE cb.arg

\* The callback query handlers of the customer router, in the order of their
\* registration: the router runs the first one whose filter passes.
CallbackHandlers ==
    <<"language_callback_handler", "list_cars_command_handler",
      "back_to_car_list_handler", "car_details_handler",
      "direct_book_car_handler", "back_to_menu_handler", "start_date_handler",
      "start_time_handler", "end_date_handler", "end_time_handler",
      "confirm_booking_handler", "change_language_handler",
      "start_date_back_handler", "end_date_back_handler">>

\* the filter of the decorator of handler h
Filter(h, cb) ==
    CASE h = "language_callback_handler" -> StartsWith(cb, <<"lang">>)
      [] h = "list_cars_command_handler" -> Is(cb, <<"list", "cars", "command">>)
      [] h = "back_to_car_list_handler" -> Is(cb, <<"list", "cars">>)
      [] h = "car_details_handler" ->
            StartsWith(cb, <<"car">>) /\ ~StartsWith(cb, <<"car", "page">>)
      [] h = "direct_book_car_handler" -> StartsWith(cb, <<"book">>)
      [] h = "back_to_menu_handler" -> Is(cb, <<"back", "to", "menu">>)
      [] h = "start_date_handler" -> StartsWith(cb, <<"start", "date">>)
      [] h = "start_time_handler" -> StartsWith(cb, <<"start", "time">>)
      [] h = "end_date_handler" -> StartsWith(cb, <<"end", "date">>)
      [] h = "end_time_handler" -> StartsWith(cb, <<"end", "time">>)
      [] h = "confirm_booking_handler" -> StartsWith(cb, <<"confirm", "booking">>)
      [] h = "change_language_handler" -> Is(cb, <<"change", "language">>)
      [] h = "start_date_back_handler" -> Is(cb, <<"start", "date", "back">>)
      [] h = "end_date_back_handler" -> Is(cb, <<"end", "date", "back">>)

Route(cb) ==
    LET passing == {i \in DOMAIN CallbackHandlers : Filter(CallbackHandlers[i], cb)}
    IN  IF passing = {} THEN "none"
        ELSE CallbackHandlers[CHOOSE i \in passing : \A j \in passing : i <= j]

(* ------------------------------ handlers ------------------------------ *)
\* the bot takes the next update when no handler is waiting for the engine
Ready == hpc = NoHandler /\ \A p \in Procs : pc[p] = "idle"

Show(u, key, lang, kb) == screen' = [screen EXCEPT ![u] = Screen(key, lang, kb)]

\* callback_query.answer(text): a notice over the chat, the message and its
\* keyboard stay
Toast(u, key) == Show(u, key, "en", screen[u].kb)

\* a handler that ran without a multi-statement engine call
HandlerDone == UNCHANGED <<dbVars, seqVars, procVars, pre, lastBooked, hpc, panelVars>>

\* the session data and the state a handler leaves
Leaves(u, d, s) ==
    /\ data' = [data EXCEPT ![u] = d]
    /\ fsm' = [fsm EXCEPT ![u] = s]

\* ErrorHandlingMiddleware: the handler raised.  The notice is sent inside a
\* try block of its own (the user sees it, or nothing when it is lost), then
\* the state is cleared.
Middleware(u) ==
    /\ \/ Toast(u, "unexpected_error")
       \/ Toast(u, "nothing")
    /\ Leaves(u, EmptySession, FsmNone)

\* The `except Exception` clause of a handler, entered with session data d
\* and state s: it answers with an error text and keyboard kb and returns;
\* when that answer raises too, the exception reaches the middleware.
Caught(u, d, s, kb) ==
    \/ Show(u, "error", "en", kb) /\ Leaves(u, d, s)
    \/ Middleware(u)

\* start_handler from the welcome text on
StartGreets(u, d) ==
    \/ /\ Show(u, "select_language", "en", LanguageKeyboard(FALSE))
       /\ Leaves(u, d, SelectingLanguage)
    \/ Caught(u, d, fsm[u], {})

\* /start: start_handler up to its return or to db.register_customer
StartHandler(u) ==
    /\ Ready
    /\ LET d == UpdateData(data[u], [msgs |-> "en", language |-> "en"]) IN
       \E customer_id \in GetCustomerId(u), name \in Names :
          IF customer_id = 0
          THEN /\ BeginCall(Bot, [NoCall EXCEPT !.op = "register_customer",
                                                !.telegram_id = u, !.name = name])
               /\ hpc' = [h |-> "start", chat |-> u, msgs |-> "en"]
               /\ pre' = Db
               /\ data' = [data EXCEPT ![u] = d]
               /\ UNCHANGED <<fsm, screen, lastBooked, panelVars>>
          ELSE /\ StartGreets(u, d)
               /\ HandlerDone

\* start_handler after db.register_customer returned
StartRegistered ==
    /\ hpc.h = "start"
    /\ ReturnToHandler
    /\ hpc' = NoHandler
    /\ UNCHANGED panelVars
    /\ IF res[Bot] = NewlyRegistered
       THEN StartGreets(hpc.chat, data[hpc.chat])
       ELSE \/ /\ Show(hpc.chat, "registration_failed", "en", {})
               /\ UNCHANGED <<data, fsm>>
            \/ Caught(hpc.chat, data[hpc.chat], fsm[hpc.chat], {})

\* lang_<code>: language_callback_handler
LanguageHandler(u, lang_code) ==
    /\ Ready
    /\ LET d == UpdateData(data[u], [language |-> lang_code, msgs |-> lang_code]) IN
          \/ /\ Show(u, "main_menu", lang_code, MainMenuKeyboard)
             /\ Leaves(u, Cleared(d), FsmNone)
          \/ Caught(u, d, fsm[u], {})
    /\ HandlerDone

\* change_language: change_language_handler
ChangeLanguageHandler(u) ==
    /\ Ready
    /\ Show(u, "select_language", MsgsOf(data[u]), LanguageKeyboard(TRUE))
    /\ fsm' = [fsm EXCEPT ![u] = SelectingLanguage]
    /\ UNCHANGED data
    /\ HandlerDone

\* list_cars_command: list_cars_command_handler
ListCarsCommandHandler(u) ==
    /\ Ready
    /\ \E rows \in GetAvailableCars :
          IF rows = <<>>
          THEN /\ Show(u, "no_cars", MsgsOf(data[u]), MainMenuKeyboard)
               /\ UNCHANGED <<data, fsm>>
          ELSE /\ data' = [data EXCEPT
                              ![u] = UpdateData(@, [cars |-> rows, current_page |-> 0])]
               /\ Show(u, "select_car", MsgsOf(data[u]), CarListKeyboard(rows))
               /\ fsm' = [fsm EXCEPT ![u] = ViewingCars]
    /\ HandlerDone

\* the body of back_to_car_list_handler
BackToCarList(u) ==
    IF data[u].cars = <<>>
    THEN \E rows \in GetAvailableCars :
            LET d == UpdateData(data[u], [cars |-> rows, current_page |-> 0]) IN
            IF rows = <<>>
            THEN /\ Show(u, "no_cars", MsgsOf(data[u]), MainMenuKeyboard)
                 /\ Leaves(u, d, fsm[u])
            ELSE /\ Show(u, "select_car", MsgsOf(data[u]), CarListKeyboard(rows))
                 /\ Leaves(u, d, ViewingCars)
    ELSE /\ Show(u, "select_car", MsgsOf(data[u]), CarListKeyboard(data[u].cars))
         /\ Leaves(u, data[u], ViewingCars)

\* list_cars: back_to_car_list_handler
BackToCarListHandler(u) ==
    /\ Ready
    /\ BackToCarList(u)
    /\ HandlerDone

\* car_<car_id>: car_details_handler
CarDetailsHandler(u, car_id) ==
    /\ Ready
    /\ \/ Caught(u, data[u], fsm[u], MainMenuKeyboard)
       \/ LET d == UpdateData(data[u], [current_car_id |-> car_id]) IN
          /\ Leaves(u, d, fsm[u])
          /\ \E car_details \in GetCarDetails(car_id) :
                IF ~car_details
                THEN Show(u, "car_not_found", MsgsOf(data[u]), MainMenuKeyboard)
                ELSE Show(u, "car_details", MsgsOf(data[u]), CarDetailsKeyboard(car_id))
    /\ HandlerDone

\* the `except Exception` clause of direct_book_car_handler: a reply, and
\* when the reply raises, a notice on the callback query
DirectBookCaught(u, d, s) ==
    \/ Caught(u, d, s, MainMenuKeyboard)
    \/ Toast(u, "error_restart") /\ Leaves(u, d, s)

\* book_<car_id>: direct_book_car_handler
DirectBookHandler(u, car_id) ==
    /\ Ready
    /\ \/ DirectBookCaught(u, data[u], fsm[u])
       \/ LET d == UpdateData(data[u], [car_id |-> car_id]) IN
          \E car_details \in GetCarDetails(car_id) :
             \/ IF ~car_details
                THEN /\ Show(u, "car_not_found", MsgsOf(d), MainMenuKeyboard)
                     /\ Leaves(u, d, fsm[u])
                ELSE /\ Show(u, "select_start_date", "en", GenerateDateKeyboard(TRUE))
                     /\ Leaves(u, d, BookingSelectStartDate)
             \/ DirectBookCaught(u, d, fsm[u])
    /\ HandlerDone

\* start_date_<date>: start_date_handler
StartDateHandler(u, date) ==
    /\ Ready
    /\ LET d == UpdateData(data[u], [start_date |-> date]) IN
          \/ /\ Show(u, "select_start_time", "en", GenerateTimeKeyboard(TRUE))
             /\ Leaves(u, d, BookingSelectStartTime)
          \/ Caught(u, d, fsm[u], MainMenuKeyboard)
    /\ HandlerDone

\* start_time_<time>: start_time_handler
StartTimeHandler(u, time) ==
    /\ Ready
    /\ data' = [data EXCEPT
                   ![u] = UpdateData(@, [start_time |-> time,
                                         start_datetime |-> <<@.start_date, time>>])]
    /\ Show(u, "select_end_date", "en", GenerateDateKeyboard(FALSE))
    /\ fsm' = [fsm EXCEPT ![u] = BookingSelectEndDate]
    /\ HandlerDone

\* end_date_<date>: end_date_handler
EndDateHandler(u, date) ==
    /\ Ready
    /\ data' = [data EXCEPT ![u] = UpdateData(@, [end_date |-> date])]
    /\ Show(u, "select_end_time", "en", GenerateTimeKeyboard(FALSE))
    /\ fsm' = [fsm EXCEPT ![u] = BookingSelectEndTime]
    /\ HandlerDone

\* end_time_<time>: end_time_handler
EndTimeHandler(u, time) ==
    /\ Ready
    /\ data' = [data EXCEPT
                   ![u] = UpdateData(@, [end_time |-> time,
                                         end_datetime |-> <<@.end_date, time>>])]
    /\ \E car_details \in GetCarDetails(data[u].car_id) :
          IF ~car_details
          THEN /\ Show(u, "car_not_found", MsgsOf(data[u]), MainMenuKeyboard)
               /\ UNCHANGED fsm
          ELSE /\ Show(u, "confirm_booking", "en", ConfirmKeyboard(data[u].car_id))
               /\ fsm' = [fsm EXCEPT ![u] = ConfirmingBooking]
    /\ HandlerDone

\* confirm_booking_<car_id>: confirm_booking_handler up to its return or to
\* db.book_car
ConfirmBookingHandler(u, car_id) ==
    /\ Ready
    /\ \E customer_id \in GetCustomerId(u) :
          IF customer_id = 0
          THEN /\ Show(u, "customer_not_found", MsgsOf(data[u]), MainMenuKeyboard)
               /\ UNCHANGED <<data, fsm>>
               /\ HandlerDone
          ELSE /\ BeginCall(Bot, [NoCall EXCEPT !.op = "book_car",
                                                !.customer_id = customer_id,
                                                !.car_id = car_id])
               /\ hpc' = [h |-> "confirm", chat |-> u, msgs |-> MsgsOf(data[u])]
               /\ pre' = Db
               /\ UNCHANGED <<data, fsm, screen, lastBooked, panelVars>>

\* confirm_booking_handler after db.book_car returned
ConfirmBooked ==
    /\ hpc.h = "confirm"
    /\ ReturnToHandler
    /\ hpc' = NoHandler
    /\ UNCHANGED panelVars
    /\ IF res[Bot].ok
       THEN \/ /\ Show(hpc.chat, "booking_success", hpc.msgs, MainMenuKeyboard)
               /\ Leaves(hpc.chat, Cleared(data[hpc.chat]), FsmNone)
            \/ Caught(hpc.chat, data[hpc.chat], fsm[hpc.chat], MainMenuKeyboard)
       ELSE /\ Show(hpc.chat, "booking_failed", hpc.msgs, MainMenuKeyboard)
            /\ Leaves(hpc.chat, Cleared(data[hpc.chat]), FsmNone)

\* back_to_menu: back_to_menu_handler
BackToMenuHandler(u) ==
    /\ Ready
    /\ Show(u, "main_menu", MsgsOf(data[u]), MainMenuKeyboard)
    /\ data' = [data EXCEPT ![u] = Cleared(@)]
    /\ fsm' = [fsm EXCEPT ![u] = FsmNone]
    /\ HandlerDone

\* /cancel: cancel_handler
CancelHandler(u) ==
    /\ Ready
    /\ IF fsm[u] = FsmNone
       THEN \/ Show(u, "nothing_to_cancel", "en", {}) /\ UNCHANGED <<data, fsm>>
            \/ Caught(u, data[u], fsm[u], {})
       ELSE \/ /\ Show(u, "cancelled", "en", {})
               /\ Leaves(u, Cleared(data[u]), FsmNone)
            \/ Caught(u, Cleared(data[u]), FsmNone, {})
    /\ HandlerDone

\* start_date_back: start_date_back_handler
StartDateBackHandler(u) ==
    /\ Ready
    /\ IF data[u].car_id = 0
       THEN BackToCarList(u)
       ELSE \E car_details \in GetCarDetails(data[u].car_id) :
               IF ~car_details
               THEN \/ BackToCarList(u)
                    \/ Caught(u, data[u], fsm[u], MainMenuKeyboard)
               ELSE /\ Show(u, "select_start_date", "en", GenerateDateKeyboard(TRUE))
                    /\ Leaves(u, data[u], BookingSelectStartDate)
    /\ HandlerDone

\* end_date_back: end_date_back_handler
EndDateBackHandler(u) ==
    /\ Ready
    /\ Show(u, "select_end_date", "en", GenerateDateKeyboard(FALSE))
    /\ Leaves(u, data[u], BookingSelectEndDate)
    /\ HandlerDone

\* The customer router takes the callback query with data cb from chat u.
CallbackQuery(u, cb) ==
    LET h == Route(cb) IN
    CASE h = "language_callback_handler" -> LanguageHandler(u, cb.words[2])
      [] h = "list_cars_command_handler" -> ListCarsCommandHandler(u)
      [] h = "back_to_car_list_handler" -> BackToCarListHandler(u)
      [] h = "car_details_handler" -> CarDetailsHandler(u, cb.arg)
      [] h = "direct_book_car_handler" -> DirectBookHandler(u, cb.arg)
      [] h = "back_to_menu_handler" -> BackToMenuHandler(u)
      [] h = "start_date_handler" -> StartDateHandler(u, DateStr(cb))
      [] h = "start_time_handler" -> StartTimeHandler(u, cb.arg)
      [] h = "end_date_handler" -> EndDateHandler(u, DateStr(cb))
      [] h = "end_time_handler" -> EndTimeHandler(u, cb.arg)
      [] h = "confirm_booking_handler" -> ConfirmBookingHandler(u, cb.arg)
      [] h = "change_language_handler" -> ChangeLanguageHandler(u)
      [] h = "start_date_back_handler" -> StartDateBackHandler(u)
      [] h = "end_date_back_handler" -> EndDateBackHandler(u)

\* The user of chat u presses a button of the keyboard under the last message.
Pressed(u, cb) ==
    /\ cb \in screen[u].kb
    /\ CallbackQuery(u, cb)

(* ------- SpecConversation: the updates of the customer chats ---------- *)
NextConversation ==
    \/ \E u \in Chats : StartHandler(u)
    \/ \E u \in Chats : CancelHandler(u)
    \/ \E u \in Chats : \E cb \in screen[u].kb : Pressed(u, cb)
    \/ StartRegistered
    \/ ConfirmBooked
    \/ RegisterSelect(Bot) \/ RegisterInsert(Bot) \/ RegisterCommit(Bot)
    \/ BookCheckCustomer(Bot) \/ BookCheckCar(Bot) \/ BookInsert(Bot)
    \/ BookUpdateCar(Bot) \/ BookCommit(Bot)
    \/ Fails(Bot)

SpecConversation == Init /\ [][NextConversation]_vars

(* ====================================================================== *)
(*      The admin panel and the dealer panel (handlers/admin.py,          *)
(*      handlers/dealer.py)                                               *)
(* ====================================================================== *)
(* ------------------------- reads of the engine ------------------------ *)
\* SELECT id FROM dealers WHERE telegram_id = %s
DealerRowsOf(user_id) ==
    {d \in dealers : d \in DOMAIN dealer_cols /\ dealer_cols[d].telegram_id = user_id}

\* db.is_dealer(user_id) behind the wrapper of dealer.py: the values the call
\* can return (False also from the `except` clauses after a backend failure)
IsDealer(user_id) == {DealerRowsOf(user_id) # {}, FALSE}

\* db.get_dealer_id(user_id): the ids it can return, 0 for None (no row, or
\* the `except` clause)
GetDealerId(user_id) == DealerRowsOf(user_id) \cup {0}

\* db.get_dealer_cars(dealer_id): the ids of the rows, or none after a failure
GetDealerCars(dealer_id) ==
    {{c \in DOMAIN cars : cars[c].dealer_id = dealer_id}, {}}

\* the ids of the rows of bookings JOIN customers JOIN cars
JoinedBookings ==
    {b \in DOMAIN bookings : /\ bookings[b].customer_id \in DOMAIN customers
                             /\ bookings[b].car_id \in DOMAIN cars}

\* db.get_all_bookings(): the ids of the rows, or [] after a failure
GetAllBookings == {JoinedBookings, {}}

\* db.get_pending_bookings(): WHERE b.pending = true
GetPendingBookings == {{b \in JoinedBookings : bookings[b].pending}, {}}

\* db.get_active_bookings(): WHERE b.active = true AND b.pending = false
GetActiveBookings ==
    {{b \in JoinedBookings : bookings[b].active /\ ~bookings[b].pending}, {}}

(* ------------------------------ keyboards ----------------------------- *)
AdminMenuKeyboard ==
    {Cb(<<"admin", "all", "bookings">>, 0), Cb(<<"admin", "dealers">>, 0)}

DealerMenuKeyboard ==
    {Cb(<<"dealer", "add", "car">>, 0), Cb(<<"dealer", "my", "cars">>, 0),
     Cb(<<"dealer", "stats">>, 0)}

AdminBackButton == Cb(<<"admin", "back">>, 0)
AdminDealersButton == Cb(<<"admin", "dealers">>, 0)
DealerBackButton == Cb(<<"dealer", "back">>, 0)

\* the keyboard under the list of show_all_bookings
AllBookingsKeyboard(ids) ==
    {Cb(<<"delete", "booking">>, b) : b \in ids}
        \cup {Cb(<<"admin", "pending", "bookings">>, 0),
              Cb(<<"admin", "active", "bookings">>, 0), AdminBackButton}

PendingBookingsKeyboard(ids) ==
    {Cb(<<"approve", "booking">>, b) : b \in ids}
        \cup {Cb(<<"reject", "booking">>, b) : b \in ids}
        \cup {Cb(<<"admin", "all", "bookings">>, 0)}

ActiveBookingsKeyboard(ids) ==
    {Cb(<<"delete", "booking">>, b) : b \in ids}
        \cup {Cb(<<"admin", "all", "bookings">>, 0)}

AllDealersKeyboard(ids) ==
    {Cb(<<"delete", "dealer">>, d) : d \in ids}
        \cup {Cb(<<"admin", "add", "dealer">>, 0), AdminBackButton}

ConfirmDeleteKeyboard(what, id, cancel) == {Cb(<<"confirm", "delete">> \o what, id), cancel}

DealerCarsKeyboard(ids) ==
    {Cb(<<"view", "dealer", "car">>, c) : c \in ids}
        \cup {Cb(<<"delete", "dealer", "car">>, c) : c \in ids}
        \cup {Cb(<<"dealer", "add", "car">>, 0), DealerBackButton}

DealerCarKeyboard(car_id) ==
    {Cb(<<"delete", "dealer", "car">>, car_id),
     Cb(<<"refresh", "car", "image">>, car_id), Cb(<<"dealer", "my", "cars">>, 0)}

\* the buttons the other chat still shows
StaleKeyboard ==
    AdminMenuKeyboard \cup DealerMenuKeyboard
        \cup PendingBookingsKeyboard({1}) \cup AllBookingsKeyboard({1})
        \cup AllDealersKeyboard({1})
        \cup ConfirmDeleteKeyboard(<<"booking">>, 1, AdminBackButton)
        \cup ConfirmDeleteKeyboard(<<"dealer">>, 1, AdminBackButton)
        \cup ConfirmDeleteKeyboard(<<"dealer", "car">>, 1, AdminBackButton)
        \cup DealerCarKeyboard(1)

(* ------------------------------- routers ------------------------------ *)
\* the callback query handlers of the admin router and of the dealer router,
\* in the order of their registration
AdminCallbackHandlers ==
    <<"admin_callback_handler", "admin_back_handler", "approve_booking_handler",
      "reject_booking_handler", "delete_booking_handler",
      "confirm_delete_booking_handler", "delete_dealer_handler",
      "confirm_delete_dealer_handler">>

DealerCallbackHandlers ==
    <<"dealer_callback_handler", "dealer_back_handler", "dealer_my_cars_handler",
      "refresh_car_image_handler", "delete_dealer_car_handler",
      "confirm_delete_dealer_car_handler", "view_dealer_car_handler">>

AdminFilter(h, cb) ==
    CASE h = "admin_callback_handler" -> StartsWith(cb, <<"admin">>)
      [] h = "admin_back_handler" -> Is(cb, <<"admin", "back">>)
      [] h = "approve_booking_handler" -> StartsWith(cb, <<"approve", "booking">>)
      [] h = "reject_booking_handler" -> StartsWith(cb, <<"reject", "booking">>)
      [] h = "delete_booking_handler" -> StartsWith(cb, <<"delete", "booking">>)
      [] h = "confirm_delete_booking_handler" ->
            StartsWith(cb, <<"confirm", "delete", "booking">>)
      [] h = "delete_dealer_handler" -> StartsWith(cb, <<"delete", "dealer">>)
      [] h = "confirm_delete_dealer_handler" ->
            StartsWith(cb, <<"confirm", "delete", "dealer">>)

DealerFilter(h, cb) ==
    CASE h = "dealer_callback_handler" -> StartsWith(cb, <<"dealer">>)
      [] h = "dealer_back_handler" -> Is(cb, <<"dealer", "back">>)
      [] h = "dealer_my_cars_handler" -> Is(cb, <<"dealer", "my", "cars">>)
      [] h = "refresh_car_image_handler" -> StartsWith(cb, <<"refresh", "car", "image">>)
      [] h = "delete_dealer_car_handler" -> StartsWith(cb, <<"delete", "dealer", "car">>)
      [] h = "confirm_delete_dealer_car_handler" ->
            StartsWith(cb, <<"confirm", "delete", "dealer", "car">>)
      [] h = "view_dealer_car_handler" -> StartsWith(cb, <<"view", "dealer", "car">>)

\* the first handler of the sequence whose filter passes, "none" for none
FirstPassing(handlers, F(_, _), cb) ==
    LET passing == {i \in DOMAIN handlers : F(handlers[i], cb)}
    IN  IF passing = {} THEN "none"
        ELSE handlers[CHOOSE i \in passing : \A j \in passing : i <= j]

\* dp.include_router(customer.router), then admin.router, then dealer.router:
\* the handler that takes a callback query
Dispatch(cb) ==
    IF Route(cb) # "none" THEN Route(cb)
    ELSE IF FirstPassing(AdminCallbackHandlers, AdminFilter, cb) # "none"
         THEN FirstPassing(AdminCallbackHandlers, AdminFilter, cb)
         ELSE FirstPassing(DealerCallbackHandlers, DealerFilter, cb)

\* int(callback_query.data.replace(prefix + "_", "")): the number, 0 when int()
\* raises ValueError because more than the number is left
IntAfter(cb, prefix) == IF cb.words = prefix THEN cb.arg ELSE 0

(* --------------------------- panel plumbing --------------------------- *)
\* is_admin_group(message): message.chat.id == ADMIN_GROUP_ID
\* is_admin_group taking every chat for the admin group when ADMIN_GROUP_ID
\* is None
IsAdminGroupUnlessConfigured(c) == ADMIN_GROUP_ID = NoGroup \/ c = ADMIN_GROUP_ID

IsAdminGroup(c) == c = ADMIN_GROUP_ID

\* the bot takes the next update when no handler is waiting for the engine
PanelReady ==
    /\ ppc = NoPanelHandler
    /\ hpc = NoHandler
    /\ \A p \in Procs : pc[p] = "idle"

\* a message of the bot with keyboard kb in chat c
PShow(c, key, kb) == panel' = [panel EXCEPT ![c] = [key |-> key, kb |-> kb]]

\* callback_query.answer(text), or a message without a keyboard: the keyboard
\* sent before it stays in the chat
PSay(c, key) == PShow(c, key, panel[c].kb)

\* the session data and the state a handler leaves to user m in chat c
PLeaves(c, m, d, s) ==
    /\ pdata' = [pdata EXCEPT ![c][m] = d]
    /\ pfsm' = [pfsm EXCEPT ![c][m] = s]

PStays == UNCHANGED <<pdata, pfsm>>

\* a handler that ran without a multi-statement engine call
PanelDone ==
    UNCHANGED <<dbVars, seqVars, procVars, pre, lastBooked,
                fsm, data, hpc, screen, ADMIN_GROUP_ID, dealer_cols, ppc, clockVars>>

\* ErrorHandlingMiddleware for an update of user m in chat c
PMiddleware(c, m) ==
    /\ \/ PSay(c, "unexpected_error")
       \/ PSay(c, "nothing")
    /\ PLeaves(c, m, EmptyPanelSession, FsmNone)

\* The `except Exception` clause of a handler, entered with session data d and
\* state s: it sends the error text with keyboard kb; when that raises too, the
\* exception reaches the middleware.
PCaught(c, m, d, s, kb) ==
    \/ PShow(c, "error", kb) /\ PLeaves(c, m, d, s)
    \/ PMiddleware(c, m)

\* The `except` clause of a function called by a handler, inside the handler's
\* own try block: when its error message raises, the `except` clause of the
\* handler sends an error text without a keyboard.
PCaughtInside(c, m, d, s, kb) ==
    \/ PShow(c, "error", kb) /\ PLeaves(c, m, d, s)
    \/ PCaught(c, m, d, s, panel[c].kb)

\* `await callback_query.answer(text)` or `await message.answer(text)` followed
\* by `return`, outside every try block
Refused(c, m, key) ==
    \/ PSay(c, key) /\ PStays
    \/ PMiddleware(c, m)

\* the handler calls engine function `cl` and waits for it
PanelCalls(h, c, m, arg, cl) ==
    /\ BeginCall(Bot, cl)
    /\ ppc' = [h |-> h, chat |-> c, user |-> m, arg |-> arg]
    /\ UNCHANGED <<pre, lastBooked, fsm, data, hpc, screen,
                   ADMIN_GROUP_ID, dealer_cols, pfsm, pdata, panel, clockVars>>

(* ------------------------------ admin.py ------------------------------ *)
\* /admin
AdminCommandHandler(c, m) ==
    /\ PanelReady
    /\ update' = Update(c, m, "admin", NoButton, NoMessage)
    /\ PanelDone
    /\ IF ~IsAdminGroup(c)
       THEN Refused(c, m, "admin_group_only")
       ELSE LET d == [pdata[c][m] EXCEPT !.msgs = "en"] IN
            \/ PShow(c, "admin_panel", AdminMenuKeyboard) /\ PLeaves(c, m, d, pfsm[c][m])
            \/ PCaught(c, m, d, pfsm[c][m], panel[c].kb)

ShowAllBookings(c, m) ==
    \E ids \in GetAllBookings :
        IF ids = {}
        THEN PShow(c, "no_bookings", AdminMenuKeyboard) /\ PStays
        ELSE /\ PShow(c, "all_bookings", AllBookingsKeyboard(ids))
             /\ PLeaves(c, m, pdata[c][m], ViewingBookings)

ShowPendingBookings(c, m) ==
    /\ \E ids \in GetPendingBookings :
          IF ids = {}
          THEN PShow(c, "no_pending_bookings", AdminMenuKeyboard)
          ELSE PShow(c, "pending_bookings", PendingBookingsKeyboard(ids))
    /\ PStays

ShowActiveBookings(c, m) ==
    /\ \E ids \in GetActiveBookings :
          IF ids = {}
          THEN PShow(c, "no_active_bookings", AdminMenuKeyboard)
          ELSE PShow(c, "active_bookings", ActiveBookingsKeyboard(ids))
    /\ PStays

\* db.get_all_dealers() has no try block: a backend failure is an exception
\* in show_all_dealers
ShowAllDealers(c, m) ==
    \/ IF dealers = {}
       THEN /\ PShow(c, "no_dealers", {Cb(<<"admin", "add", "dealer">>, 0), AdminBackButton})
            /\ PStays
       ELSE /\ PShow(c, "all_dealers", AllDealersKeyboard(dealers))
            /\ PLeaves(c, m, pdata[c][m], ManagingDealers)
    \/ PCaughtInside(c, m, pdata[c][m], pfsm[c][m], AdminMenuKeyboard)

StartAddDealer(c, m) ==
    /\ PShow(c, "enter_dealer_name", {AdminDealersButton})
    /\ PLeaves(c, m, pdata[c][m], AddingDealerName)

BackToAdminMenu(c, m) ==
    /\ PShow(c, "admin_panel", AdminMenuKeyboard)
    /\ PLeaves(c, m, EmptyPanelSession, FsmNone)

\* callbacks admin_*
AdminCallbackHandler(c, m, cb) ==
    /\ PanelDone
    /\ IF ~IsAdminGroup(c)
       THEN Refused(c, m, "admin_group_only")
       ELSE LET action == Tail(cb.words) IN
            CASE action = <<"all", "bookings">> -> ShowAllBookings(c, m)
              [] action = <<"dealers">> -> ShowAllDealers(c, m)
              [] action = <<"add", "dealer">> -> StartAddDealer(c, m)
              [] action = <<"pending", "bookings">> -> ShowPendingBookings(c, m)
              [] action = <<"active", "bookings">> -> ShowActiveBookings(c, m)
              [] action = <<"back">> -> BackToAdminMenu(c, m)
              [] OTHER -> \/ PSay(c, "unknown_action") /\ PStays
                          \/ PCaught(c, m, pdata[c][m], pfsm[c][m], panel[c].kb)

\* callback admin_back, which admin_callback_handler takes first
AdminBackHandler(c, m) ==
    /\ PanelDone
    /\ BackToAdminMenu(c, m)

\* A handler of a callback that carries an id: the group check, int() of
\* what follows the prefix, then engine call cl; ValueError is caught by the
\* `except` clause of the handler.
CallsWithId(h, c, m, id, cl) ==
    IF ~IsAdminGroup(c)
    THEN PanelDone /\ Refused(c, m, "admin_group_only")
    ELSE IF id = 0
         THEN PanelDone /\ PCaught(c, m, pdata[c][m], pfsm[c][m], AdminMenuKeyboard)
         ELSE PanelCalls(h, c, m, id, cl)

\* callback approve_booking_<id>, up to db.approve_booking
ApproveBookingHandler(c, m, cb) ==
    LET booking_id == IntAfter(cb, <<"approve", "booking">>) IN
    CallsWithId("approve_booking_handler", c, m, booking_id,
                [NoCall EXCEPT !.op = "approve_booking", !.booking_id = booking_id])

\* callback reject_booking_<id>, up to db.reject_booking
RejectBookingHandler(c, m, cb) ==
    LET booking_id == IntAfter(cb, <<"reject", "booking">>) IN
    CallsWithId("reject_booking_handler", c, m, booking_id,
                [NoCall EXCEPT !.op = "reject_booking", !.booking_id = booking_id])

\* approve_booking_handler and reject_booking_handler from the result on
BookingDecided(c, m) ==
    IF res[Bot].ok
    THEN \/ ShowPendingBookings(c, m)
         \/ PCaught(c, m, pdata[c][m], pfsm[c][m], AdminMenuKeyboard)
    ELSE \/ PSay(c, "decision_failed") /\ PStays
         \/ PCaught(c, m, pdata[c][m], pfsm[c][m], AdminMenuKeyboard)

\* callback delete_booking_<id>: asks for the confirmation
DeleteBookingHandler(c, m, cb) ==
    LET booking_id == IntAfter(cb, <<"delete", "booking">>) IN
    /\ PanelDone
    /\ IF ~IsAdminGroup(c)
       THEN Refused(c, m, "admin_group_only")
       ELSE IF booking_id = 0
            THEN PCaught(c, m, pdata[c][m], pfsm[c][m], AdminMenuKeyboard)
            ELSE /\ PShow(c, "confirm_delete_booking",
                          ConfirmDeleteKeyboard(<<"booking">>, booking_id,
                                                Cb(<<"admin", "all", "bookings">>, 0)))
                 /\ PLeaves(c, m, [pdata[c][m] EXCEPT !.booking_id_to_delete = booking_id],
                            ConfirmingDeleteBooking)

\* callback confirm_delete_booking_<id>, up to db.admin_delete_booking
ConfirmDeleteBookingHandler(c, m, cb) ==
    LET booking_id == IntAfter(cb, <<"confirm", "delete", "booking">>) IN
    CallsWithId("confirm_delete_booking_handler", c, m, booking_id,
                [NoCall EXCEPT !.op = "admin_delete_booking", !.booking_id = booking_id])

\* A confirm_delete_* handler from the result on: callback_query.answer, the
\* message with keyboard kb, and state.clear() after a success.
DeleteConfirmed(c, m, kb) ==
    IF res[Bot].ok
    THEN \/ PShow(c, "deleted", kb) /\ PLeaves(c, m, EmptyPanelSession, FsmNone)
         \/ PCaught(c, m, pdata[c][m], pfsm[c][m], kb)
    ELSE \/ PShow(c, "delete_failed", kb) /\ PStays
         \/ PCaught(c, m, pdata[c][m], pfsm[c][m], kb)

\* callback delete_dealer_<id>: asks for the confirmation
DeleteDealerHandler(c, m, cb) ==
    LET dealer_id == IntAfter(cb, <<"delete", "dealer">>) IN
    /\ PanelDone
    /\ IF ~IsAdminGroup(c)
       THEN Refused(c, m, "admin_group_only")
       ELSE IF dealer_id = 0
            THEN PCaught(c, m, pdata[c][m], pfsm[c][m], AdminMenuKeyboard)
            ELSE /\ PShow(c, "confirm_delete_dealer",
                          ConfirmDeleteKeyboard(<<"dealer">>, dealer_id, AdminDealersButton))
                 /\ PLeaves(c, m, [pdata[c][m] EXCEPT !.dealer_id_to_delete = dealer_id],
                            ConfirmingDeleteDealer)

\* callback confirm_delete_dealer_<id>, up to db.delete_dealer
ConfirmDeleteDealerHandler(c, m, cb) ==
    LET dealer_id == IntAfter(cb, <<"confirm", "delete", "dealer">>) IN
    CallsWithId("confirm_delete_dealer_handler", c, m, dealer_id,
                [NoCall EXCEPT !.op = "delete_dealer", !.dealer_id = dealer_id])

(* the messages of the add-dealer flow *)
\* a message: a text, or a photo with the file id of its largest size
TextMessage(t) == [photo |-> 0, text |-> t]
PhotoMessage(file_id) == [photo |-> file_id, text |-> NoText]

CancelAddDealerKeyboard == {AdminDealersButton}

\* add_dealer_name_handler measuring message.text without .strip()
AddDealerNameHandlerUntrimmed(c, m, msg) ==
    /\ PanelDone
    /\ IF ~IsAdminGroup(c)
       THEN Refused(c, m, "admin_group_only")
       ELSE IF msg.photo # 0
            THEN PCaught(c, m, pdata[c][m], pfsm[c][m], AdminMenuKeyboard)
            ELSE LET dealer_name == msg.text
                     d == [pdata[c][m] EXCEPT !.dealer_name = dealer_name]
                 IN  IF \/ StrLen(dealer_name) = 0
                        \/ StrLen(dealer_name) < MinDealerName
                        \/ StrLen(dealer_name) > MaxDealerName
                     THEN \/ /\ PShow(c, "invalid_dealer_name", CancelAddDealerKeyboard)
                             /\ PStays
                          \/ PCaught(c, m, pdata[c][m], pfsm[c][m], AdminMenuKeyboard)
                     ELSE \/ /\ PShow(c, "enter_dealer_telegram_id", CancelAddDealerKeyboard)
                             /\ PLeaves(c, m, d, AddingDealerTelegramId)
                          \/ PCaught(c, m, d, pfsm[c][m], AdminMenuKeyboard)

\* message in AdminStates.adding_dealer_name
AddDealerNameHandler(c, m, msg) ==
    /\ PanelDone
    /\ IF ~IsAdminGroup(c)
       THEN Refused(c, m, "admin_group_only")
       ELSE IF msg.photo # 0
            \* message.text is None: .strip() raises AttributeError
            THEN PCaught(c, m, pdata[c][m], pfsm[c][m], AdminMenuKeyboard)
            ELSE LET dealer_name == Strip(msg.text)
                     d == [pdata[c][m] EXCEPT !.dealer_name = dealer_name]
                 IN  IF \/ StrLen(dealer_name) = 0
                        \/ StrLen(dealer_name) < MinDealerName
                        \/ StrLen(dealer_name) > MaxDealerName
                     THEN \/ /\ PShow(c, "invalid_dealer_name", CancelAddDealerKeyboard)
                             /\ PStays
                          \/ PCaught(c, m, pdata[c][m], pfsm[c][m], AdminMenuKeyboard)
                     ELSE \/ /\ PShow(c, "enter_dealer_telegram_id", CancelAddDealerKeyboard)
                             /\ PLeaves(c, m, d, AddingDealerTelegramId)
                          \/ PCaught(c, m, d, pfsm[c][m], AdminMenuKeyboard)

\* add_dealer_telegram_id_handler without the `except ValueError` clause
\* around int(): every text goes on to db.add_dealer
AddDealerTelegramIdHandlerUnchecked(c, m, msg) ==
    IF ~IsAdminGroup(c)
    THEN PanelDone /\ Refused(c, m, "admin_group_only")
    ELSE IF msg.photo # 0
         THEN PanelDone /\ PCaught(c, m, pdata[c][m], pfsm[c][m], AdminMenuKeyboard)
         ELSE LET telegram_id_str == Strip(msg.text) IN
              PanelCalls("add_dealer_telegram_id_handler", c, m, telegram_id_str.val,
                         [NoCall EXCEPT !.op = "add_dealer",
                                        !.telegram_id = telegram_id_str.val,
                                        !.name = StrLen(pdata[c][m].dealer_name)])

\* message in AdminStates.adding_dealer_telegram_id, up to db.add_dealer
AddDealerTelegramIdHandler(c, m, msg) ==
    IF ~IsAdminGroup(c)
    THEN PanelDone /\ Refused(c, m, "admin_group_only")
    ELSE IF msg.photo # 0
         THEN PanelDone /\ PCaught(c, m, pdata[c][m], pfsm[c][m], AdminMenuKeyboard)
         ELSE LET telegram_id_str == Strip(msg.text) IN
              IF ~IsInt(telegram_id_str)
              THEN /\ PanelDone
                   /\ \/ /\ PShow(c, "invalid_telegram_id", CancelAddDealerKeyboard)
                         /\ PStays
                      \/ PCaught(c, m, pdata[c][m], pfsm[c][m], AdminMenuKeyboard)
              ELSE PanelCalls("add_dealer_telegram_id_handler", c, m, telegram_id_str.val,
                              [NoCall EXCEPT !.op = "add_dealer",
                                             !.telegram_id = telegram_id_str.val,
                                             !.name = StrLen(pdata[c][m].dealer_name)])

\* add_dealer_telegram_id_handler from the result on
DealerAdded(c, m) ==
    IF res[Bot].ok
    THEN \/ /\ PShow(c, "dealer_added", AdminMenuKeyboard)
            /\ PLeaves(c, m, EmptyPanelSession, FsmNone)
         \/ PCaught(c, m, pdata[c][m], pfsm[c][m], AdminMenuKeyboard)
    ELSE \/ PShow(c, "add_dealer_failed", AdminMenuKeyboard) /\ PStays
         \/ PCaught(c, m, pdata[c][m], pfsm[c][m], AdminMenuKeyboard)

(* ------------------------------ dealer.py ----------------------------- *)
\* `if not is_dealer(...)` followed by an answer and `return`, outside every
\* try block: the handler goes on with `Go` when the user is a dealer
DealerOnly(c, m, Go) ==
    \E registered \in IsDealer(m) :
        IF registered THEN Go ELSE Refused(c, m, "not_a_dealer")

\* dealer_command_handler
DealerCommandHandler(c, m) ==
    /\ PanelDone
    /\ IF ~IsAdminGroup(c)
       THEN Refused(c, m, "admin_group_only")
       ELSE \E registered \in IsDealer(m) :
              LET d == [pdata[c][m] EXCEPT !.msgs = "en"] IN
              IF ~registered
              THEN \/ PSay(c, "not_a_dealer") /\ PStays
                   \/ PCaught(c, m, pdata[c][m], pfsm[c][m], panel[c].kb)
              ELSE \/ PShow(c, "dealer_panel", DealerMenuKeyboard)
                      /\ PLeaves(c, m, d, pfsm[c][m])
                   \/ PCaught(c, m, d, pfsm[c][m], panel[c].kb)

StartAddCar(c, m) ==
    /\ PShow(c, "enter_car_make", {DealerBackButton})
    /\ PLeaves(c, m, pdata[c][m], AddingCar)

ShowDealerCars(c, m) ==
    \E dealer_id \in GetDealerId(m) :
        IF dealer_id = 0
        THEN \/ PSay(c, "not_a_dealer") /\ PStays
             \/ PCaughtInside(c, m, pdata[c][m], pfsm[c][m], DealerMenuKeyboard)
        ELSE \E ids \in GetDealerCars(dealer_id) :
               IF ids = {}
               THEN /\ PShow(c, "no_cars", {Cb(<<"dealer", "add", "car">>, 0), DealerBackButton})
                    /\ PStays
               ELSE /\ PShow(c, "your_cars", DealerCarsKeyboard(ids))
                    /\ PLeaves(c, m, pdata[c][m], DealerViewingCars)

\* db.get_dealer_stats returns a dict, or None after a backend failure
ShowDealerStats(c, m) ==
    \E dealer_id \in GetDealerId(m) :
        IF dealer_id = 0
        THEN \/ PSay(c, "not_a_dealer") /\ PStays
             \/ PCaughtInside(c, m, pdata[c][m], pfsm[c][m], DealerMenuKeyboard)
        ELSE \/ PShow(c, "no_statistics", DealerMenuKeyboard) /\ PStays
             \/ /\ PShow(c, "statistics", {DealerBackButton})
                /\ PLeaves(c, m, pdata[c][m], ViewingStats)

BackToDealerMenu(c, m) ==
    /\ PShow(c, "dealer_panel", DealerMenuKeyboard)
    /\ PLeaves(c, m, EmptyPanelSession, FsmNone)

\* callbacks dealer_*
DealerCallbackHandler(c, m, cb) ==
    /\ PanelDone
    /\ IF ~IsAdminGroup(c)
       THEN Refused(c, m, "admin_group_only")
       ELSE \E registered \in IsDealer(m) :
              IF ~registered
              THEN \/ PSay(c, "not_a_dealer") /\ PStays
                   \/ PCaught(c, m, pdata[c][m], pfsm[c][m], panel[c].kb)
              ELSE LET action == Tail(cb.words) IN
                   CASE action = <<"add", "car">> -> StartAddCar(c, m)
                     [] action = <<"my", "cars">> -> ShowDealerCars(c, m)
                     [] action = <<"stats">> -> ShowDealerStats(c, m)
                     [] action = <<"back">> -> BackToDealerMenu(c, m)
                     [] OTHER -> \/ PSay(c, "unknown_action") /\ PStays
                                 \/ PCaught(c, m, pdata[c][m], pfsm[c][m], panel[c].kb)

\* callback dealer_back, which dealer_callback_handler takes first
DealerBackHandler(c, m) ==
    /\ PanelDone
    /\ BackToDealerMenu(c, m)

\* callback dealer_my_cars, which dealer_callback_handler takes first
DealerMyCarsHandler(c, m) ==
    /\ PanelDone
    /\ ShowDealerCars(c, m)

\* A handler of a step of the add-car flow, after its two checks: the
\* re-prompt `key` for a text it does not take, or the step to state s with
\* session data d; the `except` clause answers with the dealer menu.
CarStep(c, m, valid, key, d, s) ==
    IF ~valid
    THEN \/ PSay(c, key) /\ PStays
         \/ PCaught(c, m, pdata[c][m], pfsm[c][m], DealerMenuKeyboard)
    ELSE \/ PSay(c, "next_step") /\ PLeaves(c, m, d, s)
         \/ PCaught(c, m, d, s, DealerMenuKeyboard)

\* message in DealerStates.adding_car
DealerAddCarMakeHandler(c, m, msg) ==
    /\ PanelDone
    /\ IF ~IsAdminGroup(c)
       THEN Refused(c, m, "admin_group_only")
       ELSE DealerOnly(c, m,
              IF msg.photo # 0
              THEN PCaught(c, m, pdata[c][m], pfsm[c][m], DealerMenuKeyboard)
              ELSE LET make == Strip(msg.text) IN
                   IF StrLen(make) = 0 \/ StrLen(make) < MinCarText
                         \/ StrLen(make) > MaxCarText
                   THEN CarStep(c, m, FALSE, "invalid_car_make", pdata[c][m], pfsm[c][m])
                   ELSE CarStep(c, m, IsAlpha(make), "make_letters_only",
                                [pdata[c][m] EXCEPT !.car_make = make], AddingCarModel))

\* message in DealerStates.adding_car_model
DealerAddCarModelHandler(c, m, msg) ==
    /\ PanelDone
    /\ IF ~IsAdminGroup(c)
       THEN Refused(c, m, "admin_group_only")
       ELSE DealerOnly(c, m,
              IF msg.photo # 0
              THEN PCaught(c, m, pdata[c][m], pfsm[c][m], DealerMenuKeyboard)
              ELSE LET model == Strip(msg.text) IN
                   CarStep(c, m,
                           ~(StrLen(model) = 0 \/ StrLen(model) < MinCarText
                               \/ StrLen(model) > MaxCarText),
                           "invalid_car_model",
                           [pdata[c][m] EXCEPT !.car_model = model], AddingCarYear))

\* dealer_add_car_year_handler taking `year > current_year` for its upper bound
DealerAddCarYearHandlerUpToThisYear(c, m, msg) ==
    /\ PanelDone
    /\ IF ~IsAdminGroup(c)
       THEN Refused(c, m, "admin_group_only")
       ELSE DealerOnly(c, m,
              IF msg.photo # 0
              THEN PCaught(c, m, pdata[c][m], pfsm[c][m], DealerMenuKeyboard)
              ELSE LET year_text == Strip(msg.text)
                       year == year_text.val
                   IN  IF ~IsInt(year_text)
                       THEN CarStep(c, m, FALSE, "year_numbers_only", pdata[c][m], pfsm[c][m])
                       ELSE CarStep(c, m, ~(year < MinYear \/ year > CurrentYear),
                                    "invalid_year",
                                    [pdata[c][m] EXCEPT !.car_year = year], AddingCarPhoto))

\* message in DealerStates.adding_car_year
DealerAddCarYearHandler(c, m, msg) ==
    /\ PanelDone
    /\ IF ~IsAdminGroup(c)
       THEN Refused(c, m, "admin_group_only")
       ELSE DealerOnly(c, m,
              IF msg.photo # 0
              THEN PCaught(c, m, pdata[c][m], pfsm[c][m], DealerMenuKeyboard)
              ELSE LET year_text == Strip(msg.text)
                       year == year_text.val
                   IN  IF ~IsInt(year_text)
                       THEN CarStep(c, m, FALSE, "year_numbers_only", pdata[c][m], pfsm[c][m])
                       ELSE CarStep(c, m, ~(year < MinYear \/ year > CurrentYear + 1),
                                    "invalid_year",
                                    [pdata[c][m] EXCEPT !.car_year = year], AddingCarPhoto))

\* photo in DealerStates.adding_car_photo, up to db.add_dealer_car
DealerAddCarPhotoHandler(c, m, msg) ==
    IF ~IsAdminGroup(c)
    THEN PanelDone /\ Refused(c, m, "admin_group_only")
    ELSE \E registered \in IsDealer(m) :
           IF ~registered
           THEN PanelDone /\ Refused(c, m, "not_a_dealer")
           ELSE \E dealer_id \in GetDealerId(m) :
                  IF dealer_id = 0
                  THEN /\ PanelDone
                       /\ \/ /\ PSay(c, "not_a_dealer")
                             /\ PLeaves(c, m, EmptyPanelSession, FsmNone)
                          \/ PCaught(c, m, pdata[c][m], pfsm[c][m], DealerMenuKeyboard)
                  ELSE PanelCalls("dealer_add_car_photo_handler", c, m, dealer_id,
                                  [NoCall EXCEPT !.op = "add_dealer_car",
                                                 !.dealer_id = dealer_id,
                                                 !.image_url = msg.photo])

\* dealer_add_car_photo_handler from the result on
CarAdded(c, m) ==
    IF res[Bot].ok
    THEN \/ /\ PShow(c, "car_added", DealerMenuKeyboard)
            /\ PLeaves(c, m, EmptyPanelSession, FsmNone)
         \/ PCaught(c, m, pdata[c][m], pfsm[c][m], DealerMenuKeyboard)
    ELSE \/ PShow(c, "add_car_failed", DealerMenuKeyboard) /\ PStays
         \/ PCaught(c, m, pdata[c][m], pfsm[c][m], DealerMenuKeyboard)

\* any other message in DealerStates.adding_car_photo: one message.answer
\* outside every try block
DealerAddCarPhotoTextHandler(c, m) ==
    /\ PanelDone
    /\ Refused(c, m, "send_a_photo")

\* callback refresh_car_image_<id>
RefreshCarImageHandler(c, m, cb) ==
    /\ PanelDone
    /\ IF ~IsAdminGroup(c)
       THEN Refused(c, m, "admin_group_only")
       ELSE DealerOnly(c, m,
              \E dealer_id \in GetDealerId(m) : \E ids \in GetDealerCars(dealer_id) :
                 IF cb.arg \notin ids
                 THEN \/ PSay(c, "not_your_car") /\ PStays
                      \/ PCaught(c, m, pdata[c][m], pfsm[c][m], DealerMenuKeyboard)
                 ELSE \/ /\ PShow(c, "upload_new_photo", DealerMenuKeyboard)
                         /\ PLeaves(c, m, [pdata[c][m] EXCEPT !.refresh_car_id = cb.arg],
                                    RefreshingCarPhoto)
                      \/ PCaught(c, m, pdata[c][m], pfsm[c][m], DealerMenuKeyboard))

\* photo in DealerStates.refreshing_car_photo, up to db.refresh_car_image
ProcessRefreshedCarPhoto(c, m, msg) ==
    IF ~IsAdminGroup(c)
    THEN PanelDone /\ Refused(c, m, "admin_group_only")
    ELSE \E registered \in IsDealer(m) :
           IF ~registered
           THEN PanelDone /\ Refused(c, m, "not_a_dealer")
           ELSE IF pdata[c][m].refresh_car_id = 0
                THEN /\ PanelDone
                     /\ \/ /\ PShow(c, "car_id_not_found", DealerMenuKeyboard)
                           /\ PLeaves(c, m, EmptyPanelSession, FsmNone)
                        \/ PCaught(c, m, EmptyPanelSession, FsmNone, DealerMenuKeyboard)
                ELSE PanelCalls("process_refreshed_car_photo", c, m,
                                pdata[c][m].refresh_car_id,
                                [NoCall EXCEPT !.op = "refresh_car_image",
                                               !.car_id = pdata[c][m].refresh_car_id,
                                               !.image_url = msg.photo])

\* process_refreshed_car_photo from the result on: the state is cleared after
\* either answer, and by the `except` clause too
ImageRefreshed(c, m) ==
    \/ /\ PShow(c, IF res[Bot].ok THEN "image_updated" ELSE "image_update_failed",
                DealerMenuKeyboard)
       /\ PLeaves(c, m, EmptyPanelSession, FsmNone)
    \/ PCaught(c, m, EmptyPanelSession, FsmNone, DealerMenuKeyboard)

\* callback delete_dealer_car_<id>: asks for the confirmation
DeleteDealerCarHandler(c, m, cb) ==
    LET car_id == IntAfter(cb, <<"delete", "dealer", "car">>) IN
    /\ PanelDone
    /\ IF ~IsAdminGroup(c)
       THEN Refused(c, m, "admin_group_only")
       ELSE DealerOnly(c, m,
              IF car_id = 0
              THEN PCaught(c, m, pdata[c][m], pfsm[c][m], DealerMenuKeyboard)
              ELSE /\ PShow(c, "confirm_delete_car",
                            ConfirmDeleteKeyboard(<<"dealer", "car">>, car_id,
                                                  Cb(<<"dealer", "my", "cars">>, 0)))
                   /\ PLeaves(c, m, [pdata[c][m] EXCEPT !.car_id_to_delete = car_id],
                              ConfirmingDeleteCar))

\* callback confirm_delete_dealer_car_<id>, up to db.delete_dealer_car
ConfirmDeleteDealerCarHandler(c, m, cb) ==
    LET car_id == IntAfter(cb, <<"confirm", "delete", "dealer", "car">>) IN
    IF ~IsAdminGroup(c)
    THEN PanelDone /\ Refused(c, m, "admin_group_only")
    ELSE \E registered \in IsDealer(m) :
           IF ~registered
           THEN PanelDone /\ Refused(c, m, "not_a_dealer")
           ELSE IF car_id = 0
                THEN PanelDone /\ PCaught(c, m, pdata[c][m], pfsm[c][m], DealerMenuKeyboard)
                ELSE \E dealer_id \in GetDealerId(m) :
                       IF dealer_id = 0
                       THEN /\ PanelDone
                            /\ \/ PSay(c, "not_a_dealer") /\ PStays
                               \/ PCaught(c, m, pdata[c][m], pfsm[c][m], DealerMenuKeyboard)
                       ELSE PanelCalls("confirm_delete_dealer_car_handler", c, m, car_id,
                                       [NoCall EXCEPT !.op = "delete_dealer_car",
                                                      !.dealer_id = dealer_id,
                                                      !.car_id = car_id])

\* callback view_dealer_car_<id>
ViewDealerCarHandler(c, m, cb) ==
    /\ PanelDone
    /\ IF ~IsAdminGroup(c)
       THEN Refused(c, m, "admin_group_only")
       ELSE DealerOnly(c, m,
              \E dealer_id \in GetDealerId(m) : \E ids \in GetDealerCars(dealer_id) :
                 IF cb.arg \notin ids
                 THEN \/ PSay(c, "not_your_car") /\ PStays
                      \/ PCaught(c, m, pdata[c][m], pfsm[c][m], DealerMenuKeyboard)
                 ELSE /\ \E details \in GetCarDetails(cb.arg) :
                            IF details
                            THEN PShow(c, "dealer_car", DealerCarKeyboard(cb.arg))
                            ELSE PShow(c, "details_not_loaded", DealerMenuKeyboard)
                      /\ PStays)

(* -------------------------- the panel updates ------------------------- *)
\* A callback query of user m in chat c: the handler the routers choose.
PanelCallbackQuery(c, m, cb) ==
    LET h == Dispatch(cb) IN
    /\ PanelReady
    /\ update' = Update(c, m, "", cb, NoMessage)
    /\ CASE h = "admin_callback_handler" -> AdminCallbackHandler(c, m, cb)
         [] h = "admin_back_handler" -> AdminBackHandler(c, m)
         [] h = "approve_booking_handler" -> ApproveBookingHandler(c, m, cb)
         [] h = "reject_booking_handler" -> RejectBookingHandler(c, m, cb)
         [] h = "delete_booking_handler" -> DeleteBookingHandler(c, m, cb)
         [] h = "confirm_delete_booking_handler" -> ConfirmDeleteBookingHandler(c, m, cb)
         [] h = "delete_dealer_handler" -> DeleteDealerHandler(c, m, cb)
         [] h = "confirm_delete_dealer_handler" -> ConfirmDeleteDealerHandler(c, m, cb)
         [] h = "dealer_callback_handler" -> DealerCallbackHandler(c, m, cb)
         [] h = "dealer_back_handler" -> DealerBackHandler(c, m)
         [] h = "dealer_my_cars_handler" -> DealerMyCarsHandler(c, m)
         [] h = "refresh_car_image_handler" -> RefreshCarImageHandler(c, m, cb)
         [] h = "delete_dealer_car_handler" -> DeleteDealerCarHandler(c, m, cb)
         [] h = "confirm_delete_dealer_car_handler" ->
               ConfirmDeleteDealerCarHandler(c, m, cb)
         [] h = "view_dealer_car_handler" -> ViewDealerCarHandler(c, m, cb)
         [] OTHER -> FALSE

\* user m presses a button of the keyboard chat c shows
PanelPressed(c, m, cb) ==
    /\ cb \in panel[c].kb
    /\ PanelCallbackQuery(c, m, cb)

\* the text "/dealer": seven characters, no numeral
DealerCommandText == Text(0, 7, FALSE, 0)

\* The message /dealer of user m in chat c.  The admin router is asked before
\* the dealer router, and its handlers of adding_dealer_name and
\* adding_dealer_telegram_id take every message in these states: there the
\* command is read as the text of the step.
DealerCommand(c, m) ==
    /\ PanelReady
    /\ CASE pfsm[c][m] = AddingDealerName ->
               /\ update' = Update(c, m, "dealer", NoButton, TextMessage(DealerCommandText))
               /\ AddDealerNameHandler(c, m, TextMessage(DealerCommandText))
         [] pfsm[c][m] = AddingDealerTelegramId ->
               /\ update' = Update(c, m, "dealer", NoButton, TextMessage(DealerCommandText))
               /\ AddDealerTelegramIdHandler(c, m, TextMessage(DealerCommandText))
         [] OTHER ->
               /\ update' = Update(c, m, "dealer", NoButton, NoMessage)
               /\ DealerCommandHandler(c, m)

\* A message of user m in chat c that is no command: the message handler whose
\* state filter passes, in the order admin router, dealer router.
PanelMessage(c, m, msg) ==
    LET s == pfsm[c][m] IN
    /\ PanelReady
    /\ update' = Update(c, m, "", NoButton, msg)
    /\ CASE s = AddingDealerName -> AddDealerNameHandler(c, m, msg)
         [] s = AddingDealerTelegramId -> AddDealerTelegramIdHandler(c, m, msg)
         [] s = AddingCar -> DealerAddCarMakeHandler(c, m, msg)
         [] s = AddingCarModel -> DealerAddCarModelHandler(c, m, msg)
         [] s = AddingCarYear -> DealerAddCarYearHandler(c, m, msg)
         [] s = AddingCarPhoto /\ msg.photo # 0 -> DealerAddCarPhotoHandler(c, m, msg)
         [] s = AddingCarPhoto /\ msg.photo = 0 -> DealerAddCarPhotoTextHandler(c, m)
         [] s = RefreshingCarPhoto /\ msg.photo # 0 -> ProcessRefreshedCarPhoto(c, m, msg)
         [] OTHER -> FALSE

\* The engine call of a handler returned: the handler goes on to its end.
PanelReturned ==
    LET c == ppc.chat
        m == ppc.user
    IN  /\ ppc # NoPanelHandler
        /\ pc[Bot] = "done"
        /\ ReturnToHandler
        /\ ppc' = NoPanelHandler
        /\ UNCHANGED <<fsm, data, hpc, screen, ADMIN_GROUP_ID, dealer_cols, update,
                       clockVars>>
        /\ CASE ppc.h \in {"approve_booking_handler", "reject_booking_handler"} ->
                  BookingDecided(c, m)
             [] ppc.h \in {"confirm_delete_booking_handler",
                           "confirm_delete_dealer_handler"} ->
                  DeleteConfirmed(c, m, AdminMenuKeyboard)
             [] ppc.h = "confirm_delete_dealer_car_handler" ->
                  DeleteConfirmed(c, m, DealerMenuKeyboard)
             [] ppc.h = "add_dealer_telegram_id_handler" -> DealerAdded(c, m)
             [] ppc.h = "dealer_add_car_photo_handler" -> CarAdded(c, m)
             [] ppc.h = "process_refreshed_car_photo" -> ImageRefreshed(c, m)

(* --------------------- the panels at the start ------------------------ *)
\* The tables when the panels are used: a customer is registered, and the
\* car of the first dealer has no image row yet.
PanelTablesAtStart ==
    /\ dealers = DealerIds
    /\ cars = [c \in 1..NumCars |->
                 [dealer_id |-> ((c - 1) % NumDealers) + 1, available |-> TRUE]]
    /\ car_images = {i \in InitialImages : i.car_id # 1}
    /\ bookings = <<>>
    /\ bookings_id_seq = 1
    /\ cars_id_seq = NumCars + 1
    /\ car_images_id_seq = NumCars + 1
    /\ customers = <<[telegram_id |-> 1, name |-> 1]>>
    /\ pc = [p \in Procs |-> "idle"]
    /\ call = [p \in Procs |-> NoCall]
    /\ found = [p \in Procs |-> NoFound]
    /\ tx = [p \in Procs |-> <<>>]
    /\ res = [p \in Procs |-> NoResult]
    /\ ncommit = [p \in Procs |-> 0]
    /\ pre = Db
    /\ lastBooked = 0
    /\ fsm = [u \in Chats |-> FsmNone]
    /\ data = [u \in Chats |-> EmptySession]
    /\ hpc = NoHandler
    /\ screen = [u \in Chats |-> NoScreen]
    /\ PanelsIdle

\* The group is the admin group, or no admin group is configured; the other
\* chat still shows keyboards of the panels.
InitPanel ==
    /\ PanelTablesAtStart
    /\ ADMIN_GROUP_ID \in {Group, NoGroup}
    /\ panel = [c \in PanelChats |->
                  [key |-> "none", kb |-> IF c = OtherChat THEN StaleKeyboard ELSE {}]]

\* The group is the admin group, or the other chat is, or no admin group is
\* configured; a chat that is not the admin group still shows keyboards of
\* the panels.
InitGate ==
    /\ PanelTablesAtStart
    /\ ADMIN_GROUP_ID \in {Group, OtherChat, NoGroup}
    /\ panel = [c \in PanelChats |->
                  [key |-> "none",
                   kb |-> IF c = ADMIN_GROUP_ID THEN {} ELSE StaleKeyboard]]

\* the buttons of keyboard kb whose callback data is one of `words` followed
\* by a number or by nothing
Buttons(kb, words) == {cb \in kb : cb.words \in words}

(* ------- SpecDelete: the administrators delete bookings and dealers ---- *)
\* Two members of the group use the bookings list, the dealers list and the
\* delete buttons; one booking request comes in.
DeleteFlowButtons ==
    {<<"admin", "all", "bookings">>, <<"admin", "dealers">>, <<"admin", "back">>,
     <<"delete", "booking">>, <<"confirm", "delete", "booking">>,
     <<"delete", "dealer">>, <<"confirm", "delete", "dealer">>}

NextDelete ==
    \/ AdminCommandHandler(Group, 1)
    \/ \E m \in TelegramIds : \E cb \in Buttons(panel[Group].kb, DeleteFlowButtons) :
          PanelPressed(Group, m, cb)
    \/ PanelReturned
    \/ AdminDeleteSelect(Bot) \/ AdminDeleteUpdateCar(Bot) \/ AdminDeleteDelete(Bot)
    \/ AdminDeleteCommit(Bot)
    \/ DeleteDealerSelect(Bot) \/ DeleteDealerSelectCars(Bot) \/ DeleteDealerImages(Bot)
    \/ DeleteDealerCars(Bot) \/ DeleteDealerRow(Bot) \/ DeleteDealerCommit(Bot)
    \/ Fails(Bot)
    \/ bookings_id_seq = 1 /\ SubmitPendingBooking(1, NumCars)

SpecDelete == InitPanel /\ [][NextDelete]_vars

(* --------- SpecAddDealer: an administrator adds and deletes dealers ---- *)
\* the names and the ids the administrator types, and a photo
AdminTexts ==
    {Letters(p, l) : p \in {0, 1},
                     l \in {MinDealerName - 1, MinDealerName, MaxDealerName,
                            MaxDealerName + 1}}
        \cup {Numeral(1, NumUsers)}
AdminMessages == {TextMessage(t) : t \in AdminTexts} \cup {PhotoMessage(NumUrls)}

DealersFlowButtons ==
    {<<"admin", "dealers">>, <<"admin", "add", "dealer">>, <<"admin", "back">>,
     <<"delete", "dealer">>, <<"confirm", "delete", "dealer">>}

NextAddDealer ==
    \/ AdminCommandHandler(Group, 1)
    \/ \E cb \in Buttons(panel[Group].kb, DealersFlowButtons) : PanelPressed(Group, 1, cb)
    \/ \E msg \in AdminMessages : PanelMessage(Group, 1, msg)
    \/ PanelReturned
    \/ DeleteDealerSelect(Bot) \/ DeleteDealerSelectCars(Bot) \/ DeleteDealerImages(Bot)
    \/ DeleteDealerCars(Bot) \/ DeleteDealerRow(Bot) \/ DeleteDealerCommit(Bot)
    \/ AddDealerSelect(Bot) \/ AddDealerInsert(Bot) \/ AddDealerCommit(Bot)
    \/ Fails(Bot)

SpecAddDealer == InitPanel /\ [][NextAddDealer]_vars

(* ------- SpecPanel: the input steps of the two panels, one user ------- *)
\* a name, make or model; a numeral (a Telegram id, a year); and a photo
PanelTexts == {Letters(1, MinDealerName), Numeral(1, MinYear)}
PanelMessages ==
    {TextMessage(t) : t \in PanelTexts} \cup {PhotoMessage(NumUrls)}

InputFlowButtons ==
    {<<"admin", "dealers">>, <<"admin", "add", "dealer">>, <<"admin", "back">>,
     <<"dealer", "add", "car">>, <<"dealer", "back">>}

NextPanel ==
    \/ AdminCommandHandler(Group, 1)
    \/ DealerCommand(Group, 1)
    \/ \E cb \in Buttons(panel[Group].kb, InputFlowButtons) : PanelPressed(Group, 1, cb)
    \/ \E msg \in PanelMessages : PanelMessage(Group, 1, msg)
    \/ PanelReturned
    \/ AddDealerSelect(Bot) \/ AddDealerInsert(Bot) \/ AddDealerCommit(Bot)
    \/ AddCarInsert(Bot) \/ AddCarInsertImage(Bot) \/ AddCarCommit(Bot)
    \/ Fails(Bot)

SpecPanel == InitPanel /\ [][NextPanel]_vars

(* ------- SpecGate: the panels used in a chat, admin group or not ------- *)
\* The users write in the group.  When it is the admin group they decide
\* about a booking request and add a car; when it is not, they press every
\* button it still shows.
GateFlowButtons ==
    {<<"admin", "all", "bookings">>, <<"admin", "pending", "bookings">>,
     <<"approve", "booking">>, <<"reject", "booking">>, <<"dealer", "add", "car">>}

GateButtons(kb) == IF IsAdminGroup(Group) THEN Buttons(kb, GateFlowButtons) ELSE kb

NextGate ==
    \/ AdminCommandHandler(Group, 1)
    \/ \E m \in TelegramIds : DealerCommand(Group, m)
    \/ \E m \in TelegramIds : \E cb \in GateButtons(panel[Group].kb) :
          PanelPressed(Group, m, cb)
    \/ \E m \in TelegramIds, msg \in PanelMessages : PanelMessage(Group, m, msg)
    \/ PanelReturned
    \/ ApproveSelect(Bot) \/ ApproveUpdateBooking(Bot) \/ ApproveUpdateCar(Bot)
    \/ ApproveCommit(Bot)
    \/ RejectSelect(Bot) \/ RejectDelete(Bot) \/ RejectCommit(Bot)
    \/ AddCarInsert(Bot) \/ AddCarInsertImage(Bot) \/ AddCarCommit(Bot)
    \/ Fails(Bot)
    \/ bookings_id_seq = 1 /\ SubmitPendingBooking(1, NumCars)

SpecGate == InitGate /\ [][NextGate]_vars

(* --------------- SpecDealer: the dealers add cars -------------------- *)
\* the makes, the models and the years the dealers type
DealerTexts ==
    {Letters(1, MinCarText), Letters(0, MaxCarText + 1)}
        \cup {Numeral(1, y) : y \in {MinYear - 1, MinYear, CurrentYear + 1,
                                     CurrentYear + 2}}
DealerMessages == {TextMessage(t) : t \in DealerTexts} \cup {PhotoMessage(NumUrls)}

\* the buttons of the add-car flow
DealerFlowButtons == {<<"dealer", "add", "car">>, <<"dealer", "back">>}

NextDealer ==
    \/ \E m \in TelegramIds : DealerCommand(Group, m)
    \/ \E m \in TelegramIds : \E cb \in Buttons(panel[Group].kb, DealerFlowButtons) :
          PanelPressed(Group, m, cb)
    \/ \E m \in TelegramIds, msg \in DealerMessages : PanelMessage(Group, m, msg)
    \/ PanelReturned
    \/ AddCarInsert(Bot) \/ AddCarInsertImage(Bot) \/ AddCarCommit(Bot)
    \/ Fails(Bot)

SpecDealer == InitPanel /\ [][NextDealer]_vars

(* ---- SpecRetry: register_customer behind retry_on_db_error, with a ---- *)
(* ---- backend that fails                                            ---- *)
\* retry_on_db_error calls the function and returns what it returns; its
\* `except (OperationalError, InterfaceError)` branch, the only place that
\* counts a retry and calls the function again, runs when the function
\* raises.  register_customer catches every Exception itself and returns
\* None, so a call through the wrapper is one call of the function: Fails
\* ends it with RegisterFailed, and Respond hands the value to the handler.
NextRetry ==
    \/ BeginRegister
    \/ RegisterSelect(Bot) \/ RegisterInsert(Bot) \/ RegisterCommit(Bot)
    \/ Fails(Bot)
    \/ Respond

SpecRetry == Init /\ [][NextRetry]_vars

(* -------- SpecTimes: the time keyboards through the day --------------- *)
\* generate_time_keyboard offers half-hour slots of the hours from start_hour
\* to 20 (range(start_hour, 21))
FirstHour == 8
LastHour == 20
SlotMinutes == {0, 30}

\* the minutes of an hour the clock of the model shows
ClockMinutes == {0, 29, 30, 59}
ClockTimes == {Clock(h, m) : h \in 0..23, m \in ClockMinutes}

\* time a is earlier than time b
Earlier(a, b) == a.hour < b.hour \/ (a.hour = b.hour /\ a.minute < b.minute)

\* The slots of generate_time_keyboard(for_start) when datetime.now() is n
GenerateTimeSlots(for_start, n) ==
    LET start_hour == IF for_start /\ n.hour >= FirstHour THEN n.hour ELSE FirstHour
    IN  {t \in {Clock(hour, minute) : hour \in start_hour..LastHour, minute \in SlotMinutes} :
            ~(for_start /\ t.hour = n.hour /\ t.minute <= n.minute)}

restVars == <<dbVars, seqVars, procVars, pre, lastBooked, fsm, data, hpc, screen,
              ADMIN_GROUP_ID, dealer_cols, pfsm, pdata, panel, ppc, update>>

\* start_date_handler builds the start-time keyboard; `today` tells whether
\* the date it was called with is today
StartTimeKeyboard(today) ==
    /\ offered' = [for_start |-> TRUE, today |-> today,
                   slots |-> GenerateTimeSlots(TRUE, now), at |-> now,
                   generated |-> TRUE]
    /\ UNCHANGED <<now, stats, restVars>>

\* end_date_handler builds the end-time keyboard
EndTimeKeyboard ==
    /\ offered' = [for_start |-> FALSE, today |-> FALSE,
                   slots |-> GenerateTimeSlots(FALSE, now), at |-> now,
                   generated |-> TRUE]
    /\ UNCHANGED <<now, stats, restVars>>

\* time passes, up to the end of the day
Tick ==
    /\ \E t \in ClockTimes :
          /\ Earlier(now, t)
          /\ \A u \in ClockTimes : ~(Earlier(now, u) /\ Earlier(u, t))
          /\ now' = t
    /\ UNCHANGED <<offered, stats, restVars>>

NextTimes ==
    \/ \E today \in BOOLEAN : StartTimeKeyboard(today)
    \/ EndTimeKeyboard
    \/ Tick

SpecTimes == Init /\ [][NextTimes]_vars

(* ------- SpecDeleteCar: the dealers look at their cars ---------------- *)
\* the buttons of the dealers' car list and of the screens behind it
DeleteCarFlowButtons ==
    {<<"dealer", "my", "cars">>, <<"dealer", "back">>, <<"dealer", "stats">>,
     <<"view", "dealer", "car">>, <<"delete", "dealer", "car">>,
     <<"confirm", "delete", "dealer", "car">>}

NextDeleteCar ==
    \/ \E m \in TelegramIds : DealerCommand(Group, m)
    \/ \E m \in TelegramIds :
          \E cb \in Buttons(panel[Group].kb, DeleteCarFlowButtons) :
              PanelPressed(Group, m, cb)

SpecDeleteCar == InitPanel /\ [][NextDeleteCar]_vars

(* ------- SpecReturn: customers return cars in a group chat ------------ *)
\* The customer router has no filter on the chat: in a group every member
\* sees the messages of the bot and can press their buttons.  The FSM keeps
\* one conversation per (chat, user).
ViewingBooking == "CustomerStates:viewing_booking"
MyBookingButton == Cb(<<"my", "booking">>, 0)

\* main_menu_keyboard with its button my_booking
MainMenuWithBooking == MainMenuKeyboard \cup {MyBookingButton}

\* booking_details_keyboard(booking_id)
BookingDetailsKeyboard(booking_id) == {Cb(<<"return">>, booking_id), BackToMenuButton}

\* db.get_active_booking(customer_id): the id of the customer's active
\* booking, 0 (None) when there is none or the query failed
GetActiveBooking(customer_id) == ActiveBookingsOf(bookings, customer_id) \cup {0}

\* callback my_booking: my_booking_handler
MyBookingHandler(c, m) ==
    /\ PanelReady
    /\ update' = Update(c, m, "", MyBookingButton, NoMessage)
    /\ PanelDone
    /\ \E customer_id \in GetCustomerId(m) :
          IF customer_id = 0
          THEN PShow(c, "customer_not_found", MainMenuWithBooking) /\ PStays
          ELSE \E booking_id \in GetActiveBooking(customer_id) :
                 IF booking_id = 0
                 THEN PShow(c, "no_active_booking", MainMenuWithBooking) /\ PStays
                 ELSE /\ PShow(c, "active_booking", BookingDetailsKeyboard(booking_id))
                      /\ PLeaves(c, m, pdata[c][m], ViewingBooking)

\* callback return_<booking_id>: return_car_handler up to db.return_car
ReturnCarHandler(c, m, cb) ==
    /\ PanelReady
    /\ update' = Update(c, m, "", cb, NoMessage)
    /\ PanelCalls("return_car_handler", c, m, cb.arg,
                  [NoCall EXCEPT !.op = "return_car", !.booking_id = cb.arg])

\* return_car_handler after db.return_car returned
ReturnCarReturned ==
    LET c == ppc.chat
        m == ppc.user
    IN  /\ ppc.h = "return_car_handler"
        /\ pc[Bot] = "done"
        /\ ReturnToHandler
        /\ ppc' = NoPanelHandler
        /\ UNCHANGED <<fsm, data, hpc, screen, ADMIN_GROUP_ID, dealer_cols, update,
                       clockVars>>
        /\ IF res[Bot].ok
           THEN \/ /\ PShow(c, "return_success", MainMenuWithBooking)
                   /\ PLeaves(c, m, EmptyPanelSession, FsmNone)
                \/ PCaught(c, m, pdata[c][m], pfsm[c][m], MainMenuWithBooking)
           ELSE /\ PShow(c, "return_failed", MainMenuWithBooking)
                /\ PLeaves(c, m, EmptyPanelSession, FsmNone)

\* the customers register and book; the group shows the main menu
BeginReturn ==
    /\ ppc = NoPanelHandler
    /\ \E c \in RegisterCalls \cup BookCalls : BeginCall(Bot, c)
    /\ pre' = Db
    /\ UNCHANGED <<lastBooked, convVars>>

ShowMainMenu ==
    /\ PanelReady
    /\ panel[Group].key = "none"
    /\ PShow(Group, "main_menu", MainMenuWithBooking)
    /\ PStays
    /\ PanelDone
    /\ UNCHANGED update

NextReturn ==
    \/ BeginReturn
    \/ ShowMainMenu
    \/ RegisterSelect(Bot) \/ RegisterInsert(Bot) \/ RegisterCommit(Bot)
    \/ BookCheckCustomer(Bot) \/ BookCheckCar(Bot) \/ BookInsert(Bot)
    \/ BookUpdateCar(Bot) \/ BookCommit(Bot)
    \/ ppc = NoPanelHandler /\ Respond
    \/ \E m \in TelegramIds : MyBookingButton \in panel[Group].kb /\ MyBookingHandler(Group, m)
    \/ \E m \in TelegramIds : \E cb \in Buttons(panel[Group].kb, {<<"return">>}) :
          ReturnCarHandler(Group, m, cb)
    \/ ReturnSelect(Bot) \/ ReturnUpdateBooking(Bot) \/ ReturnUpdateCar(Bot)
    \/ ReturnCommit(Bot)
    \/ ReturnCarReturned

SpecReturn == Init /\ [][NextReturn]_vars

(* ------- SpecStats: get_dealer_stats between the engine calls --------- *)
\* The dict get_dealer_stats returns: the COUNT(*) of the dealer's cars, of
\* the bookings joined to those cars, of the active and of the other ones,
\* and the bookings of each car (the order of car_stats is left out)
GetDealerStats(dealer_id) ==
    LET own == {c \in DOMAIN cars : cars[c].dealer_id = dealer_id}
        joined == {b \in DOMAIN bookings : bookings[b].car_id \in own}
    IN  [called |-> TRUE, none |-> FALSE, dealer_id |-> dealer_id,
         total_cars |-> Cardinality(own),
         total_bookings |-> Cardinality(joined),
         active_bookings |-> Cardinality({b \in joined : bookings[b].active}),
         completed_bookings |-> Cardinality({b \in joined : ~bookings[b].active}),
         car_stats |-> [c \in own |->
             Cardinality({b \in DOMAIN bookings : bookings[b].car_id = c})]]

\* get_dealer_stats runs its five queries and returns the dict
GetDealerStatsReturns(dealer_id) ==
    /\ \A p \in Procs : pc[p] = "idle"
    /\ stats' = GetDealerStats(dealer_id)
    /\ UNCHANGED <<now, offered, restVars>>

\* a query raises: `except Exception` returns None
GetDealerStatsFails(dealer_id) ==
    /\ \A p \in Procs : pc[p] = "idle"
    /\ stats' = [NoStats EXCEPT !.called = TRUE, !.dealer_id = dealer_id]
    /\ UNCHANGED <<now, offered, restVars>>

BeginStats ==
    /\ \E c \in BookCalls \cup BookingIdCalls("return_car") \cup DeleteCarCalls :
          BeginCall(Bot, c)
    /\ pre' = Db
    /\ UNCHANGED <<lastBooked, convVars>>

NextStats ==
    \/ BeginStats
    \/ BookCheckCustomer(Bot) \/ BookCheckCar(Bot) \/ BookInsert(Bot)
    \/ BookUpdateCar(Bot) \/ BookCommit(Bot)
    \/ ReturnSelect(Bot) \/ ReturnUpdateBooking(Bot) \/ ReturnUpdateCar(Bot)
    \/ ReturnCommit(Bot)
    \/ DeleteCarSelect(Bot) \/ DeleteCarCheckBooked(Bot) \/ DeleteCarImages(Bot)
    \/ DeleteCarRow(Bot) \/ DeleteCarCommit(Bot)
    \/ Respond
    \/ \E d \in DealerIds : GetDealerStatsReturns(d)
    \/ \E d \in DealerIds : GetDealerStatsFails(d)

SpecStats == Init /\ [][NextStats]_vars

(* ====================================================================== *)
(*                               Claims                                   *)
(* ====================================================================== *)
Done(p, op) == pc[p] = "done" /\ call[p].op = op

ApprovedActiveOn(bk, car_id) ==
    {b \in DOMAIN bk : bk[b].car_id = car_id /\ bk[b].active /\ ~bk[b].pending}

\* C1: of the concurrent book_car calls by different customers on one car at
\* most one returns success, the others return CarUnavailable or
\* AlreadyBooked, and the car ends with one active booking.
C1_OneSuccessPerCarUnderRace ==
    \A p, q \in Procs :
        (/\ p # q
         /\ Done(p, "book_car") /\ Done(q, "book_car")
         /\ call[p].car_id = call[q].car_id
         /\ call[p].customer_id # call[q].customer_id
         /\ res[p].ok)
        => /\ ~res[q].ok
           /\ res[q].msg \in {CarUnavailable, AlreadyBooked}
           /\ Cardinality({b \in DOMAIN bookings :
                   bookings[b].car_id = call[p].car_id /\ bookings[b].active}) = 1

\* C2: each customer has at most one booking with active = true, whatever
\* the interleaving of the calls, two book_car calls of one customer included.
C2_OneActiveBookingPerCustomer ==
    \A c \in CustomerIds : Cardinality(ActiveBookingsOf(bookings, c)) <= 1

\* C3: between engine calls a car has available = false exactly when some
\* booking with active = true and pending = false refers to it.
C3_UnavailableIffApprovedActive ==
    pc[Bot] \in {"idle", "done"} =>
        \A k \in DOMAIN cars :
            (~cars[k].available) <=> (ApprovedActiveOn(bookings, k) # {})

\* C4: return_car on the booking id that the book_car call just before
\* returned succeeds and leaves the car available, the booking inactive with
\* end_date set, and the customer able to book again (no active booking left,
\* so book_car of that customer on that car passes both checks).
C4_BookThenReturnRoundTrip ==
    (Done(Bot, "return_car") /\ lastBooked # 0 /\ call[Bot].booking_id = lastBooked)
    => /\ res[Bot] = Ok(CarReturned, 0)
       /\ lastBooked \in DOMAIN bookings
       /\ ~bookings[lastBooked].active
       /\ bookings[lastBooked].end_date = "NOW"
       /\ bookings[lastBooked].car_id \in DOMAIN cars
       /\ cars[bookings[lastBooked].car_id].available
       /\ ActiveBookingsOf(bookings, bookings[lastBooked].customer_id) = {}

C4_Witness ==
    /\ Done(Bot, "return_car") /\ lastBooked # 0
    /\ call[Bot].booking_id = lastBooked
    /\ res[Bot].ok

\* C5: register_customer with a telegram id that has a row already returns
\* False (AlreadyExists) and leaves the customers table as it was; no
\* telegram id ever has two rows.
C5_RegisterTwiceAlreadyExists ==
    /\ (Done(Bot, "register_customer")
           /\ CustomerRowsOf(pre.customers, call[Bot].telegram_id) # {})
        => (res[Bot] = AlreadyExists /\ customers = pre.customers)
    /\ \A t \in TelegramIds : Cardinality(CustomerRowsOf(customers, t)) <= 1

C5_Witness ==
    /\ Done(Bot, "register_customer")
    /\ CustomerRowsOf(pre.customers, call[Bot].telegram_id) # {}
    /\ res[Bot] = AlreadyExists

\* C6: book_car by a customer who has an active booking returns
\* AlreadyBooked for every car id, calls no commit and changes no table.
C6_AlreadyBookedRejected ==
    (Done(Bot, "book_car")
        /\ ActiveBookingsOf(pre.bookings, call[Bot].customer_id) # {})
    => (res[Bot] = Fail(AlreadyBooked) /\ ncommit[Bot] = 0 /\ Db = pre)

C6_Witness ==
    /\ Done(Bot, "book_car")
    /\ ActiveBookingsOf(pre.bookings, call[Bot].customer_id) # {}
    /\ call[Bot].car_id \notin DOMAIN pre.cars
    /\ res[Bot].msg = AlreadyBooked

\* C7: book_car by a customer without an active booking returns CarNotFound
\* for a car id that has no row and CarUnavailable for a car with
\* available = false; either way no table changes.
C7_MissingOrUnavailableCarRejected ==
    (Done(Bot, "book_car")
        /\ ActiveBookingsOf(pre.bookings, call[Bot].customer_id) = {})
    => /\ call[Bot].car_id \notin DOMAIN pre.cars
            => (res[Bot] = Fail(CarNotFound) /\ Db = pre)
       /\ (call[Bot].car_id \in DOMAIN pre.cars
              /\ ~pre.cars[call[Bot].car_id].available)
            => (res[Bot] = Fail(CarUnavailable) /\ Db = pre)

C7_Witness ==
    /\ Done(Bot, "book_car")
    /\ ActiveBookingsOf(pre.bookings, call[Bot].customer_id) = {}
    /\ call[Bot].car_id \in DOMAIN pre.cars
    /\ ~pre.cars[call[Bot].car_id].available
    /\ res[Bot].msg = CarUnavailable

\* C8: book_car by a customer without an active booking on a car with
\* available = true succeeds with one commit, inserts one booking (active,
\* that customer, that car) whose id it returns, sets that car's available to
\* false and changes nothing else.
C8_BookCarSuccess ==
    (Done(Bot, "book_car")
        /\ ActiveBookingsOf(pre.bookings, call[Bot].customer_id) = {}
        /\ call[Bot].car_id \in DOMAIN pre.cars
        /\ pre.cars[call[Bot].car_id].available)
    => /\ res[Bot].ok
       /\ ncommit[Bot] = 1
       /\ res[Bot].id \notin DOMAIN pre.bookings
       /\ DOMAIN bookings = DOMAIN pre.bookings \cup {res[Bot].id}
       /\ bookings[res[Bot].id].customer_id = call[Bot].customer_id
       /\ bookings[res[Bot].id].car_id = call[Bot].car_id
       /\ bookings[res[Bot].id].active
       /\ \A b \in DOMAIN pre.bookings : bookings[b] = pre.bookings[b]
       /\ cars = [pre.cars EXCEPT ![call[Bot].car_id].available = FALSE]
       /\ dealers = pre.dealers
       /\ car_images = pre.car_images
       /\ customers = pre.customers

C8_Witness ==
    /\ Done(Bot, "book_car")
    /\ res[Bot].ok
    /\ DOMAIN pre.bookings # {}
    /\ \E k \in DOMAIN pre.cars : k # call[Bot].car_id

\* A booking that is not active stays so; a row that appears carries the id
\* the serial drew last, and the serial never goes back.
InactiveStaysInactive ==
    /\ bookings_id_seq' >= bookings_id_seq
    /\ \A b \in BookingIds :
        /\ (b \in DOMAIN bookings /\ ~bookings[b].active)
             => (b \in DOMAIN bookings' => ~bookings'[b].active)
        /\ (b \notin DOMAIN bookings /\ b \in DOMAIN bookings')
             => b = bookings_id_seq' - 1

\* C9: return_car on a booking id without a row, or whose booking has
\* active = false, returns BookingNotFound, calls no commit and changes no
\* table; a returned booking never turns active again, so returning it a
\* second time fails.
C9_ReturnMissingOrInactiveFails ==
    /\ [](Done(Bot, "return_car")
            /\ (call[Bot].booking_id \notin DOMAIN pre.bookings
                  \/ ~pre.bookings[call[Bot].booking_id].active)
          => (res[Bot] = Fail(BookingNotFound) /\ ncommit[Bot] = 0 /\ Db = pre))
    /\ [][InactiveStaysInactive]_vars

C9_Witness ==
    /\ Done(Bot, "return_car")
    /\ call[Bot].booking_id \in DOMAIN pre.bookings
    /\ pre.bookings[call[Bot].booking_id].end_date = "NOW"
    /\ res[Bot].msg = BookingNotFound

\* a booking that is not pending stays so
ProcessedStaysProcessed ==
    \A b \in BookingIds :
        (b \in DOMAIN bookings /\ ~bookings[b].pending)
            => (b \in DOMAIN bookings' => ~bookings'[b].pending)

\* C10: approve_booking on a booking with pending = true sets pending to
\* false, sets available of the booked car (when the car still has a row) to
\* false and changes nothing else; on a booking id without a row or with
\* pending = false it returns NotFoundOrProcessed and changes no table.  A
\* processed booking never turns pending again: it is approved at most once.
C10_ApproveOnlyPending ==
    /\ [](Done(Bot, "approve_booking") =>
            LET b == call[Bot].booking_id IN
            IF b \in DOMAIN pre.bookings /\ pre.bookings[b].pending
            THEN /\ res[Bot] = Ok(BookingApproved, 0)
                 /\ bookings = [pre.bookings EXCEPT ![b].pending = FALSE]
                 /\ cars = IF pre.bookings[b].car_id \in DOMAIN pre.cars
                           THEN [pre.cars EXCEPT
                                    ![pre.bookings[b].car_id].available = FALSE]
                           ELSE pre.cars
                 /\ dealers = pre.dealers
                 /\ car_images = pre.car_images
            ELSE res[Bot] = Fail(NotFoundOrProcessed) /\ Db = pre)
    /\ [][ProcessedStaysProcessed]_vars

C10_Witness ==
    /\ Done(Bot, "approve_booking")
    /\ res[Bot].ok
    /\ pre.bookings[call[Bot].booking_id].car_id \in DOMAIN pre.cars
    /\ pre.cars[pre.bookings[call[Bot].booking_id].car_id].available
    /\ ~cars[pre.bookings[call[Bot].booking_id].car_id].available

\* C11: reject_booking on a booking with pending = true deletes that booking
\* row and nothing else, no car's available flag changes; on a booking id
\* without a row or with pending = false it returns NotFoundOrProcessed and
\* changes no table.
C11_RejectDeletesOnlyPending ==
    Done(Bot, "reject_booking") =>
        LET b == call[Bot].booking_id IN
        IF b \in DOMAIN pre.bookings /\ pre.bookings[b].pending
        THEN /\ res[Bot] = Ok(BookingRejected, 0)
             /\ bookings = Without(pre.bookings, {b})
             /\ cars = pre.cars
             /\ dealers = pre.dealers
             /\ car_images = pre.car_images
             /\ customers = pre.customers
        ELSE res[Bot] = Fail(NotFoundOrProcessed) /\ ncommit[Bot] = 0 /\ Db = pre

C11_Witness ==
    /\ Done(Bot, "reject_booking")
    /\ res[Bot].ok
    /\ call[Bot].booking_id \notin DOMAIN bookings
    /\ DOMAIN bookings # {}

\* C12: admin_delete_booking on a booking id that has a row deletes that row
\* whatever its active and pending flags are, and sets available of the booked
\* car to true exactly when the row had active = true (the flag stays as it
\* was otherwise); on a booking id without a row it returns "Booking not
\* found." and changes no table.
C12_AdminDeleteAnyBooking ==
    Done(Bot, "admin_delete_booking") =>
        LET b == call[Bot].booking_id IN
        IF b \in DOMAIN pre.bookings
        THEN /\ res[Bot] = Ok(BookingDeleted, 0)
             /\ bookings = Without(pre.bookings, {b})
             /\ cars = IF pre.bookings[b].active
                          /\ pre.bookings[b].car_id \in DOMAIN pre.cars
                       THEN [pre.cars EXCEPT
                                ![pre.bookings[b].car_id].available = TRUE]
                       ELSE pre.cars
             /\ dealers = pre.dealers
             /\ car_images = pre.car_images
             /\ customers = pre.customers
        ELSE res[Bot] = Fail(AdminBookingNotFound) /\ ncommit[Bot] = 0 /\ Db = pre

\* an inactive booking is deleted while its car is held by another booking
C12_Witness ==
    /\ Done(Bot, "admin_delete_booking")
    /\ res[Bot].ok
    /\ ~pre.bookings[call[Bot].booking_id].active
    /\ pre.bookings[call[Bot].booking_id].car_id \in DOMAIN cars
    /\ ~cars[pre.bookings[call[Bot].booking_id].car_id].available

\* C13: a backend failure in the middle of an engine call makes the call
\* return a failure result and leaves every table as it was when the call
\* began: in book_car after the INSERT and before the UPDATE of the car, in
\* return_car after the UPDATE of the booking and before the UPDATE of the
\* car, and at every other statement of every engine function.
C13_FailureIsAllOrNothing ==
    [][Fails(Bot) => (/\ ~res'[Bot].ok
                      /\ res'[Bot] = ErrorResult(call[Bot].op)
                      /\ tx'[Bot] = <<>>
                      /\ dealers' = pre.dealers
                      /\ cars' = pre.cars
                      /\ car_images' = pre.car_images
                      /\ bookings' = pre.bookings
                      /\ customers' = pre.customers)]_vars

\* book_car failed after its INSERT had drawn the booking id
C13_Witness ==
    /\ Done(Bot, "book_car")
    /\ res[Bot] = Fail(BookDbError)
    /\ found[Bot].booking_id # 0
    /\ found[Bot].booking_id \notin DOMAIN bookings
    /\ cars[call[Bot].car_id].available

\* C14: whatever the interleaving of delete_dealer_car and book_car calls, no
\* booking with active = true refers to a car that delete_dealer_car deleted
\* (book_car itself never books a car id without a row, so an active booking
\* without its car is one whose car was deleted).
C14_NoActiveBookingOnDeletedCar ==
    \A b \in DOMAIN bookings :
        bookings[b].active => bookings[b].car_id \in DOMAIN cars

CarsOf(cs, dealer_id) == {c \in DOMAIN cs : cs[c].dealer_id = dealer_id}

\* C15: delete_dealer on a dealer that has a row removes that row, every car
\* of that dealer and every image of those cars, and leaves the cars and
\* images of the other dealers (and the other tables) as they were; on a
\* dealer id without a row it returns "Dealer not found." and changes no table.
C15_DeleteDealerCascades ==
    Done(Bot, "delete_dealer") =>
        LET d == call[Bot].dealer_id
            owned == CarsOf(pre.cars, d) IN
        IF d \in pre.dealers
        THEN /\ res[Bot] = Ok(DealerDeleted, 0)
             /\ dealers = pre.dealers \ {d}
             /\ cars = Without(pre.cars, owned)
             /\ car_images = {i \in pre.car_images : i.car_id \notin owned}
             /\ bookings = pre.bookings
             /\ customers = pre.customers
        ELSE res[Bot] = Fail(DealerNotFound) /\ ncommit[Bot] = 0 /\ Db = pre

\* a dealer with a car and an image is deleted while another dealer's car stays
C15_Witness ==
    /\ Done(Bot, "delete_dealer")
    /\ res[Bot].ok
    /\ CarsOf(pre.cars, call[Bot].dealer_id) # {}
    /\ car_images # pre.car_images
    /\ car_images # {}
    /\ DOMAIN cars # {}

\* C16: whatever add_dealer_car, update_car_image (is_primary true or false)
\* and refresh_car_image calls were made, each car has at most one image with
\* is_primary = true, and when update_car_image(car, url, is_primary = true)
\* has succeeded the one primary image of that car carries url.
C16_AtMostOnePrimaryImage ==
    /\ \A k \in AllCarIds : Cardinality(ImagesOf(car_images, k, TRUE)) <= 1
    /\ (Done(Bot, "update_car_image") /\ res[Bot].ok /\ call[Bot].is_primary)
        => \E i \in car_images :
              /\ ImagesOf(car_images, call[Bot].car_id, TRUE) = {i}
              /\ i.image_url = call[Bot].image_url

\* the primary image of a car that had one with another url was replaced
C16_Witness ==
    /\ Done(Bot, "update_car_image") /\ res[Bot].ok /\ call[Bot].is_primary
    /\ \E i \in ImagesOf(pre.car_images, call[Bot].car_id, TRUE) :
           i.image_url # call[Bot].image_url
    /\ ImagesOf(car_images, call[Bot].car_id, FALSE) # {}

AvailableCars(cs) == {c \in DOMAIN cs : cs[c].available}

\* rows r are the available cars of table cs in ascending id order, without
\* the first `offset` of them and cut after `limit`
IsPageOfAvailable(r, cs, limit, offset) ==
    LET avail == AvailableCars(cs)
        rest == IF Cardinality(avail) > offset THEN Cardinality(avail) - offset ELSE 0
    IN /\ Len(r) = IF limit < rest THEN limit ELSE rest
       /\ \A i \in DOMAIN r :
            /\ r[i].id \in avail
            /\ Cardinality({c \in avail : c < r[i].id}) = offset + i - 1

\* C17: get_available_cars(limit, offset) returns the cars with
\* available = true and no other, in ascending car id order, without the
\* first `offset` of them and at most `limit` of them; when the backend
\* fails it returns the empty list.
C17_ListAvailableCars ==
    [][/\ ListSelect(Bot) =>
            IsPageOfAvailable(res'[Bot].rows, pre.cars,
                              call[Bot].limit, call[Bot].offset)
       /\ (Fails(Bot) /\ call[Bot].op = "get_available_cars") =>
            res'[Bot].rows = <<>>]_vars

\* a booked car is left out of a list that had room for it
C17_Witness ==
    /\ Done(Bot, "get_available_cars")
    /\ call[Bot].offset = 0
    /\ Len(res[Bot].rows) >= 1
    /\ Len(res[Bot].rows) < call[Bot].limit
    /\ \E c \in DOMAIN cars : ~cars[c].available /\ c < res[Bot].rows[1].id

\* C18: when a statement of register_customer hits a connectivity failure
\* the call is attempted again (every failure the model injects is one on the
\* first attempt, so MAX_RETRIES - 1 attempts are left): the step that fails
\* leads back to the first statement of the function, not to a result.
C18_FailedAttemptIsRetried ==
    [][(Fails(Bot) /\ call[Bot].op = "register_customer")
          => (pc'[Bot] = Entry("register_customer") /\ res'[Bot] = NoResult)]_vars

\* C19: when the user of a chat selects language L (after /start registered
\* the user and put the conversation in SelectingLanguage), the conversation
\* ends in Idle (state None) and the session holds L as its language
\* afterwards, so that the handlers of the later screens find it there
\* (the selection that Telegram delivered: the main menu was sent).
C19_SelectedLanguageIsStored ==
    [][\A u \in Chats, lang_code \in Languages :
          (/\ fsm[u] = SelectingLanguage
           /\ LanguageHandler(u, lang_code)
           /\ screen'[u].key = "main_menu")
              => (/\ fsm'[u] = FsmNone
                  /\ data'[u].language = lang_code
                  /\ MsgsOf(data'[u]) = lang_code)]_vars

\* C20: back_to_menu, /cancel in a state other than None, and every way
\* confirm_booking_handler ends (booked, refused by book_car, customer not
\* found) leave the conversation in state None with empty session data
\* (the outcomes whose messages Telegram delivered).
C20_CancelAndConfirmClearSession ==
    [][\A u \in Chats :
          (\/ BackToMenuHandler(u)
           \/ (fsm[u] # FsmNone /\ CancelHandler(u))
           \/ (/\ hpc.chat = u
               /\ ConfirmBooked
               /\ screen'[u].key \in {"booking_success", "booking_failed"})
           \/ (/\ fsm[u] = ConfirmingBooking
               /\ hpc' = NoHandler
               /\ \E car_id \in CarIds : ConfirmBookingHandler(u, car_id)))
              => (fsm'[u] = FsmNone /\ data'[u] = EmptySession)]_vars

\* what the user sees when a handler raised
ErrorKeys == {"error", "error_restart", "unexpected_error", "nothing"}

\* the states of the booking wizard
WizardStates ==
    {BookingSelectStartDate, BookingSelectStartTime, BookingSelectEndDate,
     BookingSelectEndTime, ConfirmingBooking}

\* the handlers of the wizard's transitions
WizardHandlers ==
    {"start_date_handler", "start_time_handler", "end_date_handler",
     "end_time_handler", "confirm_booking_handler"}

\* C21: when an error is raised inside a transition of the booking wizard
\* (the handler of the start-date, start-time, end-date, end-time or confirm
\* step ends in its error message), the conversation is in state None
\* afterwards, not at the step where the error occurred.
C21_ErrorClearsConversation ==
    [][\A u \in Chats :
          (/\ fsm[u] \in WizardStates
           /\ \/ \E cb \in screen[u].kb :
                    Route(cb) \in WizardHandlers /\ Pressed(u, cb)
              \/ (hpc.chat = u /\ ConfirmBooked)
           /\ screen'[u].key = "error")
              => fsm'[u] = FsmNone]_vars

\* C22: the Back button of the start-time screen (start_date_back) moves the
\* conversation from booking_select_start_time to booking_select_start_date,
\* the Back button of the end-time screen (end_date_back) moves it from
\* booking_select_end_time to booking_select_end_date, and neither changes
\* the start date or the end date the session holds (when no call to
\* Telegram raised).
C22_BackReturnsToDateStep ==
    [][\A u \in Chats :
          /\ (/\ fsm[u] = BookingSelectStartTime
              /\ Pressed(u, Cb(<<"start", "date", "back">>, 0))
              /\ screen'[u].key \notin ErrorKeys)
                 => (/\ fsm'[u] = BookingSelectStartDate
                     /\ data'[u].start_date = data[u].start_date
                     /\ data'[u].end_date = data[u].end_date)
          /\ (/\ fsm[u] = BookingSelectEndTime
              /\ Pressed(u, Cb(<<"end", "date", "back">>, 0))
              /\ screen'[u].key \notin ErrorKeys)
                 => (/\ fsm'[u] = BookingSelectEndDate
                     /\ data'[u].start_date = data[u].start_date
                     /\ data'[u].end_date = data[u].end_date)]_vars

\* C23: whenever a conversation is in confirming_booking, its session holds
\* the car the wizard was started for (a car id), a start date and a start
\* time and an end date and an end time chosen from the wizard's keyboards.
C23_ConfirmingHoldsWholeBooking ==
    \A u \in Chats :
        fsm[u] = ConfirmingBooking
            => (/\ data[u].car_id \in CarIds
                /\ data[u].start_date \in Dates
                /\ data[u].start_time \in Times
                /\ data[u].start_datetime = <<data[u].start_date, data[u].start_time>>
                /\ data[u].end_date \in Dates
                /\ data[u].end_time \in Times
                /\ data[u].end_datetime = <<data[u].end_date, data[u].end_time>>)

(* ---------------------- the claims about the panels -------------------- *)
\* The step is the bot taking a message of a user whose conversation is in
\* state s: update' is that message.  (With no handler waiting and no call
\* open, every step that leaves the tables alone is the bot taking an update.)
MessageIn(s) ==
    /\ PanelReady
    /\ update'.msg # NoMessage
    /\ pfsm[update'.chat][update'.user] = s
    /\ UNCHANGED dbVars

\* the step is the bot taking a callback query with data cb
Callback(cb) ==
    /\ PanelReady
    /\ update'.cb = cb
    /\ UNCHANGED dbVars

\* C27: in adding_car_year, when the handler answers an integer year with its
\* next prompt or with its year re-prompt, the answer is the next prompt
\* exactly when 1900 <= year <= current_year + 1; 1899 and current_year + 2
\* get the re-prompt and the state stays adding_car_year with the session as
\* it was; 1900 and current_year + 1 are stored as car_year and the state
\* becomes adding_car_photo.
C27_YearBounds ==
    [][LET c == update'.chat
           m == update'.user
           year == Strip(update'.msg.text)
       IN  (/\ MessageIn(AddingCarYear)
            /\ update'.msg.photo = 0
            /\ IsInt(year)
            /\ panel'[c].key \in {"next_step", "invalid_year"})
               => /\ panel'[c].key = "next_step"
                        <=> (MinYear <= year.val /\ year.val <= CurrentYear + 1)
                  /\ year.val \in {MinYear - 1, CurrentYear + 2}
                        => /\ pfsm'[c][m] = AddingCarYear
                           /\ pdata'[c][m] = pdata[c][m]
                  /\ year.val \in {MinYear, CurrentYear + 1}
                        => /\ pfsm'[c][m] = AddingCarPhoto
                           /\ pdata'[c][m].car_year = year.val]_vars

\* the dealer sent the year after this one and is asked for the photo
C27_Witness ==
    /\ update.msg.text.val = CurrentYear + 1
    /\ panel[Group].key = "next_step"
    /\ pfsm[Group][1] = AddingCarPhoto
    /\ pdata[Group][1].car_year = CurrentYear + 1

\* C29: when dealer_add_car_photo_handler ends with its success message for a
\* dealer who went through make, model and year and then sent a photo, the
\* tables hold exactly one car row more than when the photo arrived, a row of
\* that dealer with available = true, and exactly one car_images row more, a
\* primary image of the new car with the file id of the photo; no other row
\* changed; the conversation is in state None and its session holds no
\* car_make, car_model or car_year.
C29_AddCarCreatesCarAndImage ==
    [][LET c == ppc.chat
           m == ppc.user
           newCars == DOMAIN cars \ DOMAIN pre.cars
           newImages == car_images \ pre.car_images
       IN  (/\ ppc.h = "dealer_add_car_photo_handler"
            /\ ppc' = NoPanelHandler
            /\ panel'[c].key = "car_added")
               => /\ pfsm[c][m] = AddingCarPhoto
                  /\ Cardinality(newCars) = 1
                  /\ \A k \in newCars : /\ cars[k].dealer_id \in DealerRowsOf(m)
                                         /\ cars[k].available
                  /\ \A k \in DOMAIN pre.cars : k \in DOMAIN cars /\ cars[k] = pre.cars[k]
                  /\ Cardinality(newImages) = 1
                  /\ \A i \in newImages : /\ i.car_id \in newCars
                                           /\ i.is_primary
                                           /\ i.image_url = update.msg.photo
                  /\ pre.car_images \subseteq car_images
                  /\ UNCHANGED dbVars
                  /\ pfsm'[c][m] = FsmNone
                  /\ pdata'[c][m].car_make = NoText
                  /\ pdata'[c][m].car_model = NoText
                  /\ pdata'[c][m].car_year = 0]_vars

\* the first dealer added a car: the success message is in the group, the new
\* car and its image are in the tables, the conversation is over
C29_Witness ==
    /\ panel[Group].key = "car_added"
    /\ update.msg.photo = NumUrls
    /\ pfsm[Group][1] = FsmNone
    /\ pdata[Group][1] = EmptyPanelSession
    /\ NumCars + 1 \in DOMAIN cars
    /\ cars[NumCars + 1].dealer_id = 1
    /\ \E i \in car_images : i.car_id = NumCars + 1 /\ i.image_url = NumUrls

\* C26: in adding_dealer_name, when the handler answers a text with its name
\* re-prompt or with its prompt for the Telegram id: a name of 1 or 51
\* characters after trimming gets the re-prompt and the state and the session
\* stay as they were; a name of 2 or 50 characters after trimming gets the
\* prompt for the id, is stored as dealer_name (trimmed), and the state
\* becomes adding_dealer_telegram_id.  And every call of db.add_dealer has a
\* name of 2 to 50 characters.
C26_DealerNameBounds ==
    [][LET c == update'.chat
           m == update'.user
           dealer_name == Strip(update'.msg.text)
       IN  /\ (/\ MessageIn(AddingDealerName)
               /\ update'.msg.photo = 0
               /\ panel'[c].key \in {"invalid_dealer_name", "enter_dealer_telegram_id"})
                  => /\ StrLen(dealer_name) \in {MinDealerName - 1, MaxDealerName + 1}
                           => /\ panel'[c].key = "invalid_dealer_name"
                              /\ pfsm'[c][m] = AddingDealerName
                              /\ pdata'[c][m] = pdata[c][m]
                     /\ StrLen(dealer_name) \in {MinDealerName, MaxDealerName}
                           => /\ panel'[c].key = "enter_dealer_telegram_id"
                              /\ pfsm'[c][m] = AddingDealerTelegramId
                              /\ pdata'[c][m].dealer_name = dealer_name
           /\ call'[Bot].op = "add_dealer"
                  => /\ MinDealerName <= call'[Bot].name
                     /\ call'[Bot].name <= MaxDealerName]_vars

\* the administrator gave a name of 50 characters between blanks and then a
\* Telegram id: db.add_dealer is called with the 50 characters
C26_Witness ==
    /\ call[Bot].op = "add_dealer"
    /\ call[Bot].name = MaxDealerName
    /\ pfsm[Group][1] = AddingDealerTelegramId
    /\ pdata[Group][1].dealer_name = Letters(0, MaxDealerName)

\* the states of the add-dealer flow
AddingDealerStates == {AddingDealerName, AddingDealerTelegramId}

\* C30: when the Cancel button of the add-dealer flow (admin_dealers) is
\* pressed in adding_dealer_name or adding_dealer_telegram_id and the dealers
\* menu is shown (the list, or the message that there are no dealers), the
\* conversation is in neither of the two states afterwards and its session
\* holds no dealer_name.
C30_CancelLeavesAddDealer ==
    [][LET c == update'.chat
           m == update'.user
       IN  (/\ Callback(AdminDealersButton)
            /\ pfsm[c][m] \in AddingDealerStates
            /\ panel'[c].key \in {"no_dealers", "all_dealers"})
               => /\ pfsm'[c][m] \notin AddingDealerStates
                  /\ pdata'[c][m].dealer_name = NoText]_vars

\* C24: whenever a handler calls db.admin_delete_booking, db.delete_dealer or
\* db.delete_dealer_car, the conversation of the user who pressed the button
\* is in the matching confirming state (confirming_delete_booking,
\* confirming_delete_dealer, confirming_delete_car) and its session holds the
\* id the call deletes as booking_id_to_delete, dealer_id_to_delete or
\* car_id_to_delete: the delete request for that id was made in it before.
C24_DeleteAfterRequest ==
    [][LET c == ppc'.chat
           m == ppc'.user
       IN  /\ (ppc = NoPanelHandler /\ ppc'.h = "confirm_delete_booking_handler")
                  => /\ pfsm[c][m] = ConfirmingDeleteBooking
                     /\ pdata[c][m].booking_id_to_delete = call'[Bot].booking_id
           /\ (ppc = NoPanelHandler /\ ppc'.h = "confirm_delete_dealer_handler")
                  => /\ pfsm[c][m] = ConfirmingDeleteDealer
                     /\ pdata[c][m].dealer_id_to_delete = call'[Bot].dealer_id
           /\ (ppc = NoPanelHandler /\ ppc'.h = "confirm_delete_dealer_car_handler")
                  => /\ pfsm[c][m] = ConfirmingDeleteCar
                     /\ pdata[c][m].car_id_to_delete = call'[Bot].car_id]_vars

\* The step is the bot taking an invalid input of an input step: a text that
\* is no integer in adding_dealer_telegram_id, or a message without a photo
\* in adding_car_photo.
InvalidInput ==
    \/ /\ MessageIn(AddingDealerTelegramId)
       /\ update'.msg.photo = 0
       /\ ~IsInt(Strip(update'.msg.text))
    \/ /\ MessageIn(AddingCarPhoto)
       /\ update'.msg.photo = 0

\* no engine function is called in the step
NoEngineCall == ppc' = NoPanelHandler /\ UNCHANGED <<dbVars, seqVars, procVars>>

\* C28 as stated: every invalid input (a text that is no integer in
\* adding_dealer_telegram_id, a message without a photo in adding_car_photo)
\* leaves the state and the session of the conversation as they were and
\* calls no engine function, however often it is repeated.
C28_InvalidInputChangesNothing ==
    [][InvalidInput
          => /\ pfsm' = pfsm
             /\ pdata' = pdata
             /\ NoEngineCall]_vars

\* C28, amended: every invalid input calls no engine function and never moves
\* the conversation to another step: afterwards the state and the session
\* are as they were, or (when the bot could not send its answer and the
\* exception reached ErrorHandlingMiddleware) the state is None and the
\* session is empty.  Whenever the re-prompt is shown, the state and the
\* session are as they were.  This holds for every such input of a run,
\* however often it is repeated.
C28_InvalidInputNeverAdvances ==
    [][LET c == update'.chat
           m == update'.user
       IN  InvalidInput
              => /\ NoEngineCall
                 /\ \/ pfsm' = pfsm /\ pdata' = pdata
                    \/ /\ panel'[c].key \in {"unexpected_error", "nothing"}
                       /\ pfsm' = [pfsm EXCEPT ![c][m] = FsmNone]
                       /\ pdata' = [pdata EXCEPT ![c][m] = EmptyPanelSession]
                 /\ panel'[c].key \in {"invalid_telegram_id", "send_a_photo"}
                       => pfsm' = pfsm /\ pdata' = pdata]_vars

\* the administrator typed letters for the Telegram id and got the re-prompt:
\* the conversation is still in adding_dealer_telegram_id with the name
C28_Witness ==
    /\ update.msg.text = Letters(1, MinDealerName)
    /\ panel[Group].key = "invalid_telegram_id"
    /\ pfsm[Group][1] = AddingDealerTelegramId
    /\ pdata[Group][1].dealer_name = Letters(0, MinDealerName)
    /\ \A p \in Procs : pc[p] = "idle"

\* the engine functions of the panels that write, and those of the dealers
PanelMutations ==
    {"approve_booking", "reject_booking", "admin_delete_booking", "add_dealer",
     "delete_dealer", "add_dealer_car", "delete_dealer_car", "refresh_car_image"}
DealerMutations == {"add_dealer_car", "delete_dealer_car", "refresh_car_image"}

\* C25: whenever a call of approve_booking, reject_booking,
\* admin_delete_booking, add_dealer, delete_dealer, add_dealer_car,
\* delete_dealer_car or refresh_car_image begins, the update that led to it
\* came from the chat that is configured as admin group (so none begins when
\* no admin group is configured), and for add_dealer_car, delete_dealer_car
\* and refresh_car_image the user who sent it has a row in dealers.
C25_MutationsOnlyFromAdminGroup ==
    [][(/\ pc[Bot] = "idle"
        /\ pc'[Bot] # "idle"
        /\ call'[Bot].op \in PanelMutations)
           => /\ ADMIN_GROUP_ID # NoGroup
              /\ update'.chat = ADMIN_GROUP_ID
              /\ ppc'.chat = ADMIN_GROUP_ID
              /\ ppc'.user = update'.user
              /\ call'[Bot].op \in DealerMutations
                    => DealerRowsOf(update'.user) # {}]_vars

\* no admin group is configured, a booking request is pending, and somebody
\* pressed the Approve button the chat still shows: the bot refused, and the
\* request is still pending
C25_Witness ==
    /\ ADMIN_GROUP_ID = NoGroup
    /\ update.cb = Cb(<<"approve", "booking">>, 1)
    /\ panel[Group].key = "admin_group_only"
    /\ 1 \in DOMAIN bookings
    /\ bookings[1].pending
    /\ \A p \in Procs : pc[p] = "idle"

(* ---------------- the claims about the time keyboards ------------------ *)
\* the half-hour slots from 08:00 to 20:00
HalfHourSlots ==
    {t \in {Clock(hour, minute) : hour \in FirstHour..LastHour, minute \in SlotMinutes} :
        ~Earlier(Clock(LastHour, 0), t)}

\* C31: every time the time keyboard offers, for the start and for the end
\* and at every time of the day, is hh:00 or hh:30 between 08:00 and 20:00;
\* nothing later than 20:00 is offered.
C31_SlotsWithinOpeningHours ==
    offered.generated => offered.slots \subseteq HalfHourSlots

\* C32: the start-time keyboard leaves out past times only when the chosen
\* start date is today: for a later date it offers every slot from 08:00
\* whatever the time is, for today exactly the slots later than now.
C32_PastTimesExcludedOnlyToday ==
    (offered.generated /\ offered.for_start) =>
        IF offered.today
        THEN offered.slots \cap HalfHourSlots =
                 {t \in HalfHourSlots : Earlier(offered.at, t)}
        ELSE HalfHourSlots \subseteq offered.slots

(* ---------------- the claims about the dealer statistics --------------- *)
\* C33: get_dealer_stats returns the not-available signal (None) when the
\* dealer owns no car; otherwise its report counts the dealer's cars and the
\* bookings on them, all of them, the active and the completed ones, and
\* total = active + completed.
C33_StatsOfDealer ==
    [][\A d \in DealerIds :
          GetDealerStatsReturns(d) =>
              LET own == {c \in DOMAIN cars : cars[c].dealer_id = d}
                  on == {b \in DOMAIN bookings : bookings[b].car_id \in own}
              IN  IF own = {}
                  THEN stats'.none
                  ELSE /\ ~stats'.none
                       /\ stats'.total_cars = Cardinality(own)
                       /\ stats'.total_bookings = Cardinality(on)
                       /\ stats'.active_bookings =
                              Cardinality({b \in on : bookings[b].active})
                       /\ stats'.completed_bookings =
                              Cardinality({b \in on : ~bookings[b].active})
                       /\ stats'.total_bookings =
                              stats'.active_bookings + stats'.completed_bookings]_vars

(* ---------------- the claims about the failure messages ---------------- *)
\* the messages that carry the text of the backend's exception
RawErrorMessages == {DatabaseErrorRaw}

\* the engine functions that change the tables
MutatingOps ==
    {"book_car", "return_car", "approve_booking", "reject_booking",
     "admin_delete_booking", "add_dealer", "delete_dealer", "add_dealer_car",
     "delete_dealer_car"}

\* C34: when an engine function fails with an unexpected backend error, the
\* reason it returns is a fixed generic message without the text of the
\* backend's error: for book_car and return_car and equally for
\* approve_booking, reject_booking, admin_delete_booking, add_dealer,
\* delete_dealer, add_dealer_car and delete_dealer_car.
C34_NoRawBackendText ==
    \A p \in Procs :
        (pc[p] = "done" /\ call[p].op \in MutatingOps /\ ~res[p].ok) =>
            res[p].msg \notin RawErrorMessages

(* ------------- the claims about the result of a booking ---------------- *)
\* C35: when the result cannot be presented after book_car or return_car
\* committed, the booking and the car's availability stay as committed, and
\* the conversation still ends with the state None and an empty session
\* instead of staying in confirming_booking or viewing_booking.
C35_ResultNotPresented ==
    [][(/\ ConfirmBooked
        /\ res[Bot].ok
        /\ screen'[hpc.chat].key # "booking_success")
           => (/\ bookings' = bookings
               /\ cars' = cars
               /\ fsm'[hpc.chat] = FsmNone
               /\ data'[hpc.chat] = EmptySession)]_vars

(* ------------- the claims about the dealers' delete buttons ------------ *)
\* C36: in the admin group the button delete_dealer_car_<id> pressed by a
\* dealer goes to the dealer router's delete-car handler (the conversation
\* enters confirming_delete_car with that car id stored), and the button
\* confirm_delete_dealer_car_<id> pressed next reaches delete_dealer_car for
\* that car; the admin router's delete-dealer handlers take neither of them.
C36_DeleteCarButtonsReachDealerHandlers ==
    [][\A m \in TelegramIds : \A cb \in panel[Group].kb :
          (/\ IsAdminGroup(Group)
           /\ DealerRowsOf(m) # {}
           /\ PanelPressed(Group, m, cb))
              => /\ cb.words = <<"delete", "dealer", "car">> =>
                       /\ Dispatch(cb) = "delete_dealer_car_handler"
                       /\ pfsm'[Group][m] = ConfirmingDeleteCar
                       /\ pdata'[Group][m].car_id_to_delete = cb.arg
                 /\ cb.words = <<"confirm", "delete", "dealer", "car">> =>
                       /\ Dispatch(cb) = "confirm_delete_dealer_car_handler"
                       /\ call'[Bot].op = "delete_dealer_car"
                       /\ call'[Bot].car_id = cb.arg]_vars

(* ------------------ the claims about the tables ------------------------ *)
\* the approved bookings of car k that are still active
ApprovedActive(k) ==
    {b \in DOMAIN bookings :
        bookings[b].car_id = k /\ bookings[b].active /\ ~bookings[b].pending}

\* C37: every car has at most one booking with active = true and
\* pending = false; approving two requests for one car, or a request for a
\* car that was booked in the meantime, never gives the car two of them.
C37_OneApprovedBookingPerCar ==
    \A k \in CarIds : Cardinality(ApprovedActive(k)) <= 1

\* C38: every booking row refers to a car of the cars table; delete_dealer
\* never removes a car that has an active booking.
C38_BookingsReferToCars ==
    \A b \in DOMAIN bookings : bookings[b].car_id \in DOMAIN cars

(* ------------------- the claims about returning a car ------------------ *)
\* C39: the button return_<booking id> pressed by a user ends a booking
\* only when the booking belongs to the customer row of that user: nobody
\* makes another customer's booking inactive or frees its car.
C39_ReturnOnlyOwnBooking ==
    (ppc.h = "return_car_handler" /\ pc[Bot] = "done" /\ res[Bot].ok) =>
        /\ ppc.arg \in DOMAIN bookings
        /\ bookings[ppc.arg].customer_id \in CustomerRowsOf(customers, ppc.user)

(* ------------------- the claims about the start command ---------------- *)
\* C40: /start reports a failed registration only when register_customer
\* returned its failure value (None); whenever the user already has a
\* customer row, also after a lookup that failed, the conversation goes on
\* to selecting_language.
C40_RegistrationFailedOnlyOnFailure ==
    [][(StartRegistered /\ screen'[hpc.chat].key = "registration_failed")
          => (/\ res[Bot] = RegisterFailed
              /\ CustomerRowsOf(customers, hpc.chat) = {})]_vars

====
